---- MODULE Spec2Model ----
(***************************************************************************)
(* Model of the RIOC client's pipelined batch path (src/src/rioc_client.c, *)
(* src/src/rioc.h): batch assembly, rioc_batch_execute_async, the          *)
(* background receiver response_thread_func, rioc_batch_wait,              *)
(* rioc_batch_get_response_async, rioc_batch_tracker_free and              *)
(* rioc_batch_free, running against one session (socket).                  *)
(*                                                                         *)
(* Wire abstraction: the inbound stream is a sequence of cells.  A fixed   *)
(* width field (status, value_len, an entry's key_len or value_len) is one *)
(* cell holding the field's value; a payload byte is one cell.  A read of  *)
(* n bytes of payload takes n cells, a read of a response header takes    *)
(* HdrCells cells (the 32-bit status takes two cells, its 16-bit halves).   *)
(***************************************************************************)
EXTENDS Integers, Sequences, FiniteSets, TLC

(* ---- bounds of the model ---- *)
MaxOps        == 2     \* operations per batch (the code allows RIOC_MAX_BATCH_SIZE)
MaxValueLen   == 1     \* longest value the modelled server returns for a Get
MaxRangeCount == 1     \* most entries the modelled server returns for a RangeQuery

(* ---- program constants ---- *)
RIOC_SUCCESS   == 0
RIOC_ERR_PARAM == -1
RIOC_ERR_MEM   == -2
RIOC_ERR_IO    == -3
RIOC_ERR_PROTO == -4
RIOC_VERSION == 2
RIOC_MAGIC == 1380927811            \* 0x524F4943
RIOC_MAX_KEY_SIZE == 512
RIOC_MAX_VALUE_SIZE == 102400
RIOC_MAX_BATCH_SIZE == 128
RIOC_CACHE_LINE_SIZE == 128
RIOC_FLAG_PIPELINE == 2
RIOC_FLAG_MORE == 4
SizeofBatchHeader == 12             \* uint32_t magic, uint16_t version, count, uint32_t flags
RIOC_ERR_NOENT == -6

RIOC_CMD_GET            == 1
RIOC_CMD_INSERT         == 2
RIOC_CMD_DELETE         == 3
RIOC_CMD_RANGE_QUERY    == 6
RIOC_CMD_ATOMIC_INC_DEC == 7

SizeofInt64 == 8       \* sizeof(increment), the value_len of an AtomicIncDec
HdrCells    == 3       \* struct rioc_response_header: status (two halves), value_len
TwoTo16     == 65536   \* uint32_t status is carried as two 16-bit halves (hi, lo)
TwoTo15     == 32768

(* pointers: NULL, a pointer into the batch's staging buffer, or a heap id > 0 *)
NULL   == 0
STAGED == -1

(* The two batch handles the application works with on the one session. *)
Batches == {1, 2}

(* The handle used in runs with one batch on the session. *)
Single == {1}

VARIABLES
    batch,      \* batch[b]: struct rioc_batch (st, count, ops)
    trk,        \* trk[b]: struct rioc_batch_tracker of the submit of batch b
    rcv,        \* rcv[b]: position and locals of response_thread_func for trk[b]
    heap,       \* malloc'ed result buffers, in allocation order
    wire,       \* cells received on the socket and not yet read
    reqq,       \* commands sent on the session the server has not answered yet
    srvSeq,     \* number of responses the server has produced
    app,        \* the application thread: where it is inside an API call
    ret,        \* what the API call that returned in the last step returned (else NoRet)
    hist        \* history: ioerr (a send or receive failed), read[b] (the headers the
                \* receiver of b read), failed[b] (why it gave up), sent (the server's
                \* responses), early (retired while running), ub (undefined behaviour)

vars == <<batch, trk, rcv, heap, wire, reqq, srvSeq, app, ret, hist>>

(* (int32_t)status: the response header carries the status as uint32_t,    *)
(* struct rioc_response stores it in an int.  The 32 bits are the halves   *)
(* hi and lo.                                                              *)
AsInt32(hi, lo) == (IF hi >= TwoTo15 THEN hi - TwoTo16 ELSE hi) * TwoTo16 + lo

(* the halves of the uint32_t that carries a status -TwoTo16 < i < TwoTo16 *)
StatusHi(i) == IF i < 0 THEN TwoTo16 - 1 ELSE 0
StatusLo(i) == IF i < 0 THEN i + TwoTo16 ELSE i

Take(s, n) == SubSeq(s, 1, n)
Drop(s, n) == SubSeq(s, n + 1, Len(s))

(* ---- batch assembly ---- *)

NewOp(cmd, vptr, vlen) ==
    [cmd |-> cmd, req_value_len |-> vlen, value_ptr |-> vptr,
     status |-> 0, value_len |-> 0]

\* rioc_batch_create: memset 0, header initialised, count = 0
BatchCreate(b) ==
    /\ app.pc = "idle"
    /\ batch[b].st = "none"
    /\ batch' = [batch EXCEPT ![b] = [st |-> "open", count |-> 0, ops |-> <<>>]]
    /\ ret' = [call |-> "create", b |-> b, idx |-> 0, val |-> 0, ptr |-> NULL,
               io |-> FALSE]
    /\ UNCHANGED <<trk, rcv, heap, wire, reqq, srvSeq, app, hist>>

\* batch_add_op: the value is staged (value_ptr set) only if value && value_len > 0
StagedPtr(hasValue, vlen) == IF hasValue /\ vlen > 0 THEN STAGED ELSE NULL

\* The arguments the five adders pass to batch_add_op / rioc_batch_add_range_query:
\* <<command, value given, value_len>>
AddArgs ==
    {<<RIOC_CMD_GET, FALSE, 0>>,
     <<RIOC_CMD_INSERT, TRUE, 1>>,
     <<RIOC_CMD_DELETE, FALSE, 0>>,
     <<RIOC_CMD_RANGE_QUERY, TRUE, 1>>,
     <<RIOC_CMD_ATOMIC_INC_DEC, TRUE, SizeofInt64>>}

BatchAdd(b) ==
    /\ app.pc = "idle"
    /\ batch[b].st = "open"
    /\ trk[b].st = "none"
    /\ batch[b].count < MaxOps
    /\ \E a \in AddArgs :
          batch' = [batch EXCEPT
                      ![b].ops = Append(@, NewOp(a[1], StagedPtr(a[2], a[3]), a[3])),
                      ![b].count = @ + 1]
    /\ ret' = [call |-> "add", b |-> b, idx |-> batch[b].count, val |-> RIOC_SUCCESS,
               ptr |-> NULL, io |-> FALSE]
    /\ UNCHANGED <<trk, rcv, heap, wire, reqq, srvSeq, app, hist>>

NoTracker == [st |-> "none", completed |-> 0, error |-> 0, responses_received |-> 0]
NoThread  == [pc |-> "none", i |-> 0, j |-> 0, results |-> NULL, len |-> 0]
NoRet     == [call |-> "none", b |-> 0, idx |-> 0, val |-> 0, ptr |-> NULL, io |-> FALSE]
Idle      == [pc |-> "idle", b |-> 0, timeout |-> 0]

Returns(call, b, idx, val, ptr, io) ==
    [call |-> call, b |-> b, idx |-> idx, val |-> val, ptr |-> ptr, io |-> io]

(* ---- the heap of result buffers ---- *)

Malloc(h, kind, data) == Append(h, [kind |-> kind, data |-> data, live |-> TRUE])
NewId(h) == Len(h) + 1

\* free() of every buffer in ids
FreeAll(h, ids) ==
    [x \in DOMAIN h |-> IF x \in ids THEN [h[x] EXCEPT !.live = FALSE] ELSE h[x]]

\* the key and value buffers of the first n entries of a results array
EntryBufs(entries, n) ==
    {entries[k].key : k \in {x \in 1..Len(entries) : x <= n}}
      \cup {entries[k].value : k \in {x \in 1..Len(entries) : x <= n}}

ZeroEntry == [key |-> NULL, key_len |-> 0, value |-> NULL, value_len |-> 0]

(* ---- rioc_batch_execute_async ---- *)

OpAt(b, i) == batch[b].ops[i + 1]

\* what writev_all / rioc_tls_writev put on the session: one request per op
Requests(b) == [k \in 1..batch[b].count |-> batch[b].ops[k].cmd]

\* the tracker as initialised at lines 579-584
\* a tracker that starts with one response counted
NewTrackerCounted == [st |-> "live", completed |-> 0, error |-> 0, responses_received |-> 1]
\* lines 581-584: the tracker as rioc_batch_execute_async fills it
NewTracker == [st |-> "live", completed |-> 0, error |-> 0, responses_received |-> 0]

\* a failed submit that also releases the batch
SubmitFailsRetires(b, sent) ==
    /\ ret' = Returns("submit", b, 0, 0, NULL, sent)
    /\ hist' = [hist EXCEPT !.ioerr = @ \/ sent]
    /\ batch' = [batch EXCEPT ![b].st = "freed"]
    /\ UNCHANGED <<trk, rcv, reqq>>

\* the failed-submit paths: free(iovs); free(tracker); return NULL
SubmitFails(b, sent) ==
    /\ ret' = Returns("submit", b, 0, 0, NULL, sent)
    /\ hist' = [hist EXCEPT !.ioerr = @ \/ sent]
    /\ UNCHANGED <<batch, trk, rcv, reqq>>

SubmitSends(b) ==
    /\ reqq' = reqq \o Requests(b)
    /\ trk' = [trk EXCEPT ![b] = NewTracker]
    /\ rcv' = [rcv EXCEPT ![b] = [NoThread EXCEPT !.pc = "start"]]
    /\ ret' = Returns("submit", b, 0, 0, b, TRUE)
    /\ UNCHANGED <<batch, hist>>

\* rioc_batch_execute_async up to the start of the receiver; the exit taken when
\* pthread_create fails (lines 676-679) is SubmitNoThread, taken in SpecThread
Submit(b) ==
    /\ app.pc = "idle"
    /\ batch[b].st = "open"
    /\ trk[b].st = "none"
    /\ IF batch[b].count = 0
       THEN /\ ret' = Returns("submit", b, 0, 0, NULL, FALSE)
            /\ UNCHANGED <<batch, trk, rcv, reqq, hist>>
       ELSE \/ SubmitFails(b, FALSE)     \* posix_memalign of tracker or iovs fails
            \/ SubmitFails(b, TRUE)      \* the vectored send fails
            \/ SubmitSends(b)
    /\ UNCHANGED <<heap, wire, srvSeq, app>>

(* ---- the server and the network (not part of the client) ---- *)

Byte(s) == 100 + s

Cells(n, c) == [k \in 1..n |-> c]

RECURSIVE RangeCells(_, _)
RangeCells(n, s) ==
    IF n = 0 THEN <<>> ELSE RangeCells(n - 1, s) \o <<1, Byte(s) + n, 1, Byte(s) + 10 * n>>

ErrReply == [status |-> RIOC_ERR_NOENT, value_len |-> 0, payload |-> <<>>]

\* the responses the server may give to a command, as the s-th response
Replies(cmd, s) ==
    {ErrReply} \cup
    CASE cmd = RIOC_CMD_GET ->
           {[status |-> RIOC_SUCCESS, value_len |-> n, payload |-> Cells(n, Byte(s))]
              : n \in 0..MaxValueLen}
      [] cmd = RIOC_CMD_ATOMIC_INC_DEC ->
           {[status |-> RIOC_SUCCESS, value_len |-> SizeofInt64,
             payload |-> Cells(SizeofInt64, Byte(s))]}
      [] cmd = RIOC_CMD_RANGE_QUERY ->
           {[status |-> RIOC_SUCCESS, value_len |-> n, payload |-> RangeCells(n, s)]
              : n \in 0..MaxRangeCount}
      [] OTHER ->
           {[status |-> RIOC_SUCCESS, value_len |-> 0, payload |-> <<>>]}

\* the number of cells the receiver's pending read asks for
Need(b) ==
    CASE rcv[b].pc = "hdr"   -> HdrCells
      [] rcv[b].pc = "value" -> OpAt(b, rcv[b].i).value_len
      [] rcv[b].pc \in {"rkl", "rvl"} -> 1
      [] rcv[b].pc \in {"rk", "rv"} -> rcv[b].len
      [] OTHER -> 0

\* The server answers the oldest unanswered request; the answer reaches the
\* socket when a reader is waiting for more than is buffered.
ServerRespond ==
    /\ reqq # <<>>
    /\ \E b \in Batches : Need(b) > Len(wire)
    /\ \E r \in Replies(Head(reqq), srvSeq) :
          /\ wire' = wire \o <<StatusHi(r.status), StatusLo(r.status), r.value_len>>
                          \o r.payload
          /\ hist' = [hist EXCEPT !.sent = Append(@, r)]
    /\ reqq' = Tail(reqq)
    /\ srvSeq' = srvSeq + 1
    /\ ret' = NoRet
    /\ UNCHANGED <<batch, trk, rcv, heap, app>>

(* ---- response_thread_func ---- *)

SetOp(b, i, status, vlen) ==
    [batch EXCEPT ![b].ops[i + 1].status = status, ![b].ops[i + 1].value_len = vlen]

SetValuePtr(b, i, p) == [batch EXCEPT ![b].ops[i + 1].value_ptr = p]

\* an error exit that sets completed first and stores the error afterwards
RcvErrorFlagFirst(b, cause, code) ==
    /\ trk' = [trk EXCEPT ![b].completed = 1]
    /\ rcv' = [rcv EXCEPT ![b].pc = "finish"]
    /\ hist' = [hist EXCEPT !.ioerr = @ \/ (cause = "io"), !.failed[b] = cause]
\* every error exit: atomic_store(&tracker->error, code); the store of
\* completed follows as the thread's last step
\* cause: what went wrong ("io": a receive failed, "alloc": an allocation failed)
RcvError(b, cause, code) ==
    /\ trk' = [trk EXCEPT ![b].error = code]
    /\ rcv' = [rcv EXCEPT ![b].pc = "setdone"]
    /\ hist' = [hist EXCEPT !.ioerr = @ \/ (cause = "io"), !.failed[b] = cause]

\* posix_memalign of the response buffer
RcvStart(b) ==
    /\ rcv[b].pc = "start"
    /\ \/ /\ rcv' = [rcv EXCEPT ![b].pc = IF 0 < batch[b].count THEN "hdr" ELSE "finish"]
          /\ UNCHANGED <<trk, hist>>
       \/ RcvError(b, "alloc", RIOC_ERR_MEM)
    /\ ret' = NoRet
    /\ UNCHANGED <<batch, heap, wire, reqq, srvSeq, app>>

\* where the loop body goes after the header of op was stored
AfterHeader(cmd, vlen) ==
    IF cmd \in {RIOC_CMD_GET, RIOC_CMD_ATOMIC_INC_DEC} /\ vlen > 0 THEN "value"
    ELSE IF cmd = RIOC_CMD_RANGE_QUERY /\ vlen > 0 THEN "ralloc"
    ELSE "advance"

\* a receiver that stores every response header in the first slot
SlotOfFirst(i) == 0

\* the slot a response header read at loop index i is stored in
SlotOf(i) == i

\* lines 708-724: receive the response header, store it in the op
RcvHeader(b) ==
    /\ rcv[b].pc = "hdr"
    /\ \/ /\ Len(wire) >= HdrCells
          /\ wire' = Drop(wire, HdrCells)
          /\ batch' = SetOp(b, SlotOf(rcv[b].i), AsInt32(wire[1], wire[2]), wire[3])
          /\ rcv' = [rcv EXCEPT ![b].pc = AfterHeader(OpAt(b, rcv[b].i).cmd, wire[3])]
          /\ hist' = [hist EXCEPT !.read[b] =
                         Append(@, [hi |-> wire[1], lo |-> wire[2], value_len |-> wire[3]])]
          /\ UNCHANGED trk
       \/ /\ RcvError(b, "io", RIOC_ERR_IO)
          /\ UNCHANGED <<batch, wire>>
    /\ ret' = NoRet
    /\ UNCHANGED <<heap, reqq, srvSeq, app>>

\* lines 726-757: receive the value of a Get / AtomicIncDec, copy it to a new buffer
RcvValue(b) ==
    LET n == OpAt(b, rcv[b].i).value_len IN
    /\ rcv[b].pc = "value"
    /\ \/ /\ Len(wire) >= n
          /\ wire' = Drop(wire, n)
          /\ \/ /\ heap' = Malloc(heap, "bytes", Take(wire, n))
                /\ batch' = SetValuePtr(b, rcv[b].i, NewId(heap))
                /\ rcv' = [rcv EXCEPT ![b].pc = "advance"]
                /\ UNCHANGED <<trk, hist>>
             \/ /\ RcvError(b, "alloc", RIOC_ERR_MEM)
                /\ UNCHANGED <<batch, heap>>
       \/ /\ RcvError(b, "io", RIOC_ERR_IO)
          /\ UNCHANGED <<batch, heap, wire>>
    /\ ret' = NoRet
    /\ UNCHANGED <<reqq, srvSeq, app>>

\* lines 760-783: allocate the results array (zeroed) and the scratch buffer
RcvRangeAlloc(b) ==
    LET count == OpAt(b, rcv[b].i).value_len IN
    /\ rcv[b].pc = "ralloc"
    /\ \/ /\ heap' = Malloc(heap, "range", [k \in 1..count |-> ZeroEntry])
          /\ rcv' = [rcv EXCEPT ![b].pc = "rkl", ![b].j = 0, ![b].results = NewId(heap)]
          /\ UNCHANGED <<trk, hist>>
       \/ /\ RcvError(b, "alloc", RIOC_ERR_MEM)          \* malloc of results fails
          /\ UNCHANGED heap
       \/ /\ RcvError(b, "alloc", RIOC_ERR_MEM)          \* malloc of buffer fails: free(results)
          /\ heap' = FreeAll(Malloc(heap, "range", <<>>), {NewId(heap)})
    /\ ret' = NoRet
    /\ UNCHANGED <<batch, wire, reqq, srvSeq, app>>

\* a cleanup that frees the results array and forgets the entries' buffers
RangeCleanupLeaks(b, n) == FreeAll(heap, {rcv[b].results})

\* the cleanup of the error exits inside the entry loop: the entries k < n, then results
RangeCleanup(b, n) ==
    FreeAll(heap, (EntryBufs(heap[rcv[b].results].data, n) \ {NULL}) \cup {rcv[b].results})

RangeFail(b, cause, code, n) ==
    /\ RcvError(b, cause, code)
    /\ heap' = RangeCleanup(b, n)

\* lines 790-810: receive the key length of entry j
RcvKeyLen(b) ==
    /\ rcv[b].pc = "rkl"
    /\ \/ /\ Len(wire) >= 1
          /\ wire' = Tail(wire)
          /\ rcv' = [rcv EXCEPT ![b].pc = "rk", ![b].len = Head(wire)]
          /\ UNCHANGED <<trk, hist, heap>>
       \/ /\ RangeFail(b, "io", RIOC_ERR_IO, rcv[b].j)
          /\ UNCHANGED wire
    /\ ret' = NoRet
    /\ UNCHANGED <<batch, reqq, srvSeq, app>>

SetEntryKey(h, rid, j, id, len) ==
    [h EXCEPT ![rid].data[j + 1].key = id, ![rid].data[j + 1].key_len = len]

SetEntryValue(h, rid, j, id, len) ==
    [h EXCEPT ![rid].data[j + 1].value = id, ![rid].data[j + 1].value_len = len]

\* lines 812-849: receive the key of entry j, copy it to a new buffer
RcvKey(b) ==
    LET n == rcv[b].len IN
    /\ rcv[b].pc = "rk"
    /\ \/ /\ Len(wire) >= n
          /\ wire' = Drop(wire, n)
          /\ \/ /\ heap' = SetEntryKey(Malloc(heap, "bytes", Take(wire, n)),
                                       rcv[b].results, rcv[b].j, NewId(heap), n)
                /\ rcv' = [rcv EXCEPT ![b].pc = "rvl"]
                /\ UNCHANGED <<trk, hist>>
             \/ RangeFail(b, "alloc", RIOC_ERR_MEM, rcv[b].j)
       \/ /\ RangeFail(b, "io", RIOC_ERR_IO, rcv[b].j)
          /\ UNCHANGED wire
    /\ ret' = NoRet
    /\ UNCHANGED <<batch, reqq, srvSeq, app>>

\* lines 851-871: receive the value length of entry j
RcvValLen(b) ==
    /\ rcv[b].pc = "rvl"
    /\ \/ /\ Len(wire) >= 1
          /\ wire' = Tail(wire)
          /\ rcv' = [rcv EXCEPT ![b].pc = "rv", ![b].len = Head(wire)]
          /\ UNCHANGED <<trk, hist, heap>>
       \/ /\ RangeFail(b, "io", RIOC_ERR_IO, rcv[b].j + 1)
          /\ UNCHANGED wire
    /\ ret' = NoRet
    /\ UNCHANGED <<batch, reqq, srvSeq, app>>

\* lines 873-916: receive the value of entry j, copy it to a new buffer; after the
\* last entry store the results array in the op
RcvVal(b) ==
    LET n == rcv[b].len
        last == rcv[b].j + 1 >= OpAt(b, rcv[b].i).value_len IN
    /\ rcv[b].pc = "rv"
    /\ \/ /\ Len(wire) >= n
          /\ wire' = Drop(wire, n)
          /\ \/ /\ heap' = SetEntryValue(Malloc(heap, "bytes", Take(wire, n)),
                                         rcv[b].results, rcv[b].j, NewId(heap), n)
                /\ rcv' = [rcv EXCEPT ![b].pc = IF last THEN "advance" ELSE "rkl",
                                      ![b].j = @ + 1]
                /\ batch' = IF last THEN SetValuePtr(b, rcv[b].i, rcv[b].results)
                            ELSE batch
                /\ UNCHANGED <<trk, hist>>
             \/ /\ RangeFail(b, "alloc", RIOC_ERR_MEM, rcv[b].j + 1)
                /\ UNCHANGED batch
       \/ /\ RangeFail(b, "io", RIOC_ERR_IO, rcv[b].j + 1)
          /\ UNCHANGED <<batch, wire>>
    /\ ret' = NoRet
    /\ UNCHANGED <<reqq, srvSeq, app>>

\* a receiver that counts a response it has not read yet
NextReceivedAhead(i) == i + 2

\* line 918: the value stored in responses_received after op i
NextReceived(i) == i + 1

\* line 918: atomic_store(&tracker->responses_received, i + 1); then i++
RcvAdvance(b) ==
    /\ rcv[b].pc = "advance"
    /\ trk' = [trk EXCEPT ![b].responses_received = NextReceived(rcv[b].i)]
    /\ rcv' = [rcv EXCEPT ![b].i = @ + 1,
                          ![b].pc = IF rcv[b].i + 1 < batch[b].count THEN "hdr"
                                    ELSE "finish"]
    /\ ret' = NoRet
    /\ UNCHANGED <<batch, heap, wire, reqq, srvSeq, app, hist>>

\* a receiver whose aggregate status reflects the slots' statuses
FinalStatusOfSlots(b) ==
    IF \E k \in 1..batch[b].count : batch[b].ops[k].status # RIOC_SUCCESS
    THEN RIOC_ERR_NOENT ELSE RIOC_SUCCESS

\* line 922: the aggregate status stored after the loop
FinalStatus(b) == RIOC_SUCCESS

\* a receiver that returns after the loop without setting completed
RcvFinishNoFlag(b) ==
    /\ rcv[b].pc = "finish"
    /\ trk' = [trk EXCEPT ![b].error = FinalStatus(b)]
    /\ rcv' = [rcv EXCEPT ![b].pc = "exited"]
    /\ ret' = NoRet
    /\ UNCHANGED <<batch, heap, wire, reqq, srvSeq, app, hist>>
\* lines 921-922: atomic_store(&tracker->error, RIOC_SUCCESS)
RcvFinish(b) ==
    /\ rcv[b].pc = "finish"
    /\ trk' = [trk EXCEPT ![b].error = FinalStatus(b)]
    /\ rcv' = [rcv EXCEPT ![b].pc = "setdone"]
    /\ ret' = NoRet
    /\ UNCHANGED <<batch, heap, wire, reqq, srvSeq, app, hist>>

\* atomic_store(&tracker->completed, 1); return NULL
RcvComplete(b) ==
    /\ rcv[b].pc = "setdone"
    /\ trk' = [trk EXCEPT ![b].completed = 1]
    /\ rcv' = [rcv EXCEPT ![b].pc = "exited"]
    /\ ret' = NoRet
    /\ UNCHANGED <<batch, heap, wire, reqq, srvSeq, app, hist>>

Receiver(b) ==
    \/ RcvStart(b) \/ RcvHeader(b) \/ RcvValue(b)
    \/ RcvRangeAlloc(b) \/ RcvKeyLen(b) \/ RcvKey(b) \/ RcvValLen(b) \/ RcvVal(b)
    \/ RcvAdvance(b) \/ RcvFinish(b) \/ RcvComplete(b)

Running(b) == rcv[b].pc \notin {"none", "exited"}

(* ---- rioc_batch_wait ---- *)

Timeouts == {0, 1}      \* timeout_ms: 0 (wait for ever) or some t > 0

WaitCall(b) ==
    /\ app.pc = "idle"
    /\ trk[b].st = "live"
    /\ \E tm \in Timeouts : app' = [pc |-> "wait", b |-> b, timeout |-> tm]
    /\ ret' = NoRet
    /\ UNCHANGED <<batch, trk, rcv, heap, wire, reqq, srvSeq, hist>>

\* a wait that does not look at the completion flag
CompletedAssumed(b) == TRUE

\* line 936: the loop condition, atomic_load(&tracker->completed)
Completed(b) == trk[b].completed # 0

\* a wait that gives the batch up when its deadline passes: it marks the tracker
\* complete with RIOC_ERR_IO
WaitPollGivesUp(b) ==
    /\ app.pc = "wait" /\ app.b = b
    /\ IF Completed(b)
       THEN /\ app' = [app EXCEPT !.pc = "wait_ret"]
            /\ ret' = NoRet
            /\ UNCHANGED trk
       ELSE /\ app.timeout > 0
            /\ app' = Idle
            /\ trk' = [trk EXCEPT ![b].completed = 1, ![b].error = RIOC_ERR_IO]
            /\ ret' = Returns("wait", b, app.timeout, RIOC_ERR_IO, NULL, FALSE)
    /\ UNCHANGED <<batch, rcv, heap, wire, reqq, srvSeq, hist>>

\* one turn of the loop at lines 936-952 that leaves it: completion observed, or
\* the deadline of a timeout_ms > 0 passed (a turn that sleeps changes nothing)
WaitPoll(b) ==
    /\ app.pc = "wait" /\ app.b = b
    /\ IF Completed(b)
       THEN /\ app' = [app EXCEPT !.pc = "wait_ret"]
            /\ ret' = NoRet
       ELSE /\ app.timeout > 0
            /\ app' = Idle
            /\ ret' = Returns("wait", b, app.timeout, RIOC_ERR_IO, NULL, FALSE)
    /\ UNCHANGED <<batch, trk, rcv, heap, wire, reqq, srvSeq, hist>>

\* a wait that consumes the completion: it clears the flag on its way out
WaitReturnClears(b) ==
    /\ app.pc = "wait_ret" /\ app.b = b
    /\ app' = Idle
    /\ trk' = [trk EXCEPT ![b].completed = 0]
    /\ ret' = Returns("wait", b, app.timeout, trk[b].error, NULL, FALSE)
    /\ UNCHANGED <<batch, rcv, heap, wire, reqq, srvSeq, hist>>

\* line 954: return atomic_load(&tracker->error)
WaitReturn(b) ==
    /\ app.pc = "wait_ret" /\ app.b = b
    /\ app' = Idle
    /\ ret' = Returns("wait", b, app.timeout, trk[b].error, NULL, FALSE)
    /\ UNCHANGED <<batch, trk, rcv, heap, wire, reqq, srvSeq, hist>>

(* ---- rioc_batch_get_response_async ---- *)

\* a lookup that lets the slot at the high-water mark through
GetResponseStatusOffByOne(b, index) ==
    IF index >= batch[b].count THEN RIOC_ERR_PARAM
    ELSE IF index > trk[b].responses_received THEN RIOC_ERR_IO
    ELSE OpAt(b, index).status

\* the value the call returns for index
GetResponseStatus(b, index) ==
    IF index >= batch[b].count THEN RIOC_ERR_PARAM
    ELSE IF index >= trk[b].responses_received THEN RIOC_ERR_IO
    ELSE OpAt(b, index).status

\* *value, written only when the slot is available
GetResponseValue(b, index) ==
    IF index < batch[b].count /\ index < trk[b].responses_received
    THEN OpAt(b, index).value_ptr ELSE NULL

GetResponse(b) ==
    /\ app.pc = "idle"
    /\ trk[b].st = "live"
    /\ \E index \in 0..MaxOps :
          ret' = Returns("get", b, index, GetResponseStatus(b, index),
                         GetResponseValue(b, index), FALSE)
    /\ UNCHANGED <<batch, trk, rcv, heap, wire, reqq, srvSeq, app, hist>>

(* ---- rioc_batch_tracker_free, rioc_batch_free ---- *)

TrackerFreeCall(b) ==
    /\ app.pc = "idle"
    /\ trk[b].st = "live"
    /\ app' = [pc |-> "join", b |-> b, timeout |-> 0]
    /\ hist' = [hist EXCEPT !.early = @ \cup (IF Running(b) THEN {b} ELSE {})]
    /\ ret' = NoRet
    /\ UNCHANGED <<batch, trk, rcv, heap, wire, reqq, srvSeq>>

\* a retire that does not join the receiver
JoinSkipped(b) == TRUE

\* pthread_join(tracker->response_thread) returns once the thread has returned
JoinReturns(b) == rcv[b].pc = "exited"

\* the buffers the loop at lines 988-1008 passes to free() for one op
OpFrees(op) ==
    IF op.value_ptr = NULL THEN {}
    ELSE IF op.cmd \in {RIOC_CMD_GET, RIOC_CMD_ATOMIC_INC_DEC} THEN {op.value_ptr}
    ELSE IF op.cmd = RIOC_CMD_RANGE_QUERY
         THEN {op.value_ptr} \cup
              (IF op.value_ptr \in DOMAIN heap /\ heap[op.value_ptr].kind = "range"
               THEN EntryBufs(heap[op.value_ptr].data, op.value_len) \ {NULL}
               ELSE {})
    ELSE {}

TrackerFrees(b) == UNION {OpFrees(batch[b].ops[k]) : k \in 1..batch[b].count}

\* free() of something that is no live heap buffer
BadFrees(ids) == {x \in ids : x \notin DOMAIN heap \/ ~heap[x].live}

TrackerFreeJoin(b) ==
    /\ app.pc = "join" /\ app.b = b
    /\ JoinReturns(b)
    /\ heap' = FreeAll(heap, TrackerFrees(b))
    /\ trk' = [trk EXCEPT ![b].st = "freed"]
    /\ hist' = [hist EXCEPT !.ub = @ \cup (IF BadFrees(TrackerFrees(b)) = {} THEN {}
                                           ELSE {"bad_free"})]
    /\ app' = Idle
    /\ ret' = Returns("tracker_free", b, 0, 0, NULL, FALSE)
    /\ UNCHANGED <<batch, rcv, wire, reqq, srvSeq>>

\* rioc_batch_tracker_free called again on a tracker it has freed: the call reads
\* the freed tracker (lines 982, 987), passes the ops' stale value_ptr to free()
\* again and frees the tracker again.  Undefined behaviour: the call returns
\* with the heap damaged, or the allocator aborts the process.
TrackerFreeAgain(b) ==
    /\ app.pc = "idle"
    /\ trk[b].st = "freed"
    /\ hist' = [hist EXCEPT !.ub = @ \cup {"use_after_free", "double_free"}]
    /\ \/ /\ app' = Idle
          /\ ret' = Returns("tracker_free", b, 1, 0, NULL, FALSE)
       \/ /\ app' = [pc |-> "aborted", b |-> b, timeout |-> 0]
          /\ ret' = NoRet
    /\ UNCHANGED <<batch, trk, rcv, heap, wire, reqq, srvSeq>>

\* rioc_batch_free: free(batch->value_buffer); free(batch)
BatchFree(b) ==
    /\ app.pc = "idle"
    /\ batch[b].st = "open"
    /\ trk[b].st \in {"none", "freed"}
    /\ batch' = [batch EXCEPT ![b].st = "freed"]
    /\ ret' = Returns("batch_free", b, 0, 0, NULL, FALSE)
    /\ UNCHANGED <<trk, rcv, heap, wire, reqq, srvSeq, app, hist>>

App(b) ==
    \/ BatchCreate(b) \/ BatchAdd(b) \/ Submit(b)
    \/ WaitCall(b) \/ WaitPoll(b) \/ WaitReturn(b)
    \/ GetResponse(b)
    \/ TrackerFreeCall(b) \/ TrackerFreeJoin(b) \/ TrackerFreeAgain(b) \/ BatchFree(b)

Init ==
    /\ batch = [b \in Batches |-> [st |-> "none", count |-> 0, ops |-> <<>>]]
    /\ trk = [b \in Batches |-> NoTracker]
    /\ rcv = [b \in Batches |-> NoThread]
    /\ heap = <<>>
    /\ wire = <<>>
    /\ reqq = <<>>
    /\ srvSeq = 0
    /\ app = Idle
    /\ ret = NoRet
    /\ hist = [ioerr |-> FALSE, read |-> [b \in Batches |-> <<>>],
               failed |-> [b \in Batches |-> "none"], sent |-> <<>>,
               early |-> {}, ub |-> {}]

Next ==
    \/ \E b \in Single : App(b)
    \/ \E b \in Single : Receiver(b)
    \/ ServerRespond

Spec == Init /\ [][Next]_vars

(* ---- two batches on the one session ---- *)

MaxOpsTwo == 1      \* operations per batch in the runs with two batches

\* the adders used in the runs with two batches: rioc_batch_add_get, _insert
AddArgsTwo == {a \in AddArgs : a[1] \in {RIOC_CMD_GET, RIOC_CMD_INSERT}}

BatchAddTwo(b) ==
    /\ app.pc = "idle"
    /\ batch[b].st = "open"
    /\ trk[b].st = "none"
    /\ batch[b].count < MaxOpsTwo
    /\ \E a \in AddArgsTwo :
          batch' = [batch EXCEPT
                      ![b].ops = Append(@, NewOp(a[1], StagedPtr(a[2], a[3]), a[3])),
                      ![b].count = @ + 1]
    /\ ret' = Returns("add", b, batch[b].count, RIOC_SUCCESS, NULL, FALSE)
    /\ UNCHANGED <<trk, rcv, heap, wire, reqq, srvSeq, app, hist>>

AppTwo(b) ==
    \/ BatchCreate(b) \/ BatchAddTwo(b) \/ Submit(b)
    \/ WaitCall(b) \/ WaitPoll(b) \/ WaitReturn(b)
    \/ GetResponse(b)
    \/ TrackerFreeCall(b) \/ TrackerFreeJoin(b) \/ TrackerFreeAgain(b) \/ BatchFree(b)

ReceiverTwo(b) ==
    \/ RcvStart(b) \/ RcvHeader(b) \/ RcvValue(b)
    \/ RcvAdvance(b) \/ RcvFinish(b) \/ RcvComplete(b)

NextTwo ==
    \/ \E b \in Batches : AppTwo(b)
    \/ \E b \in Batches : ReceiverTwo(b)
    \/ ServerRespond

SpecTwo == Init /\ [][NextTwo]_vars
(* ---- what the properties talk about ---- *)

\* the status a slot holds once response header h was stored in it
HeaderStatus(h) == AsInt32(h.hi, h.lo)

\* a slot as batch assembly left it: no response stored, no result attached
Untouched(op) ==
    /\ op.status = 0
    /\ op.value_len = 0
    /\ op.value_ptr = (IF op.req_value_len > 0 THEN STAGED ELSE NULL)

\* the wire form of the first n entries of a decoded results array
RECURSIVE Flatten(_, _)
Flatten(entries, n) ==
    IF n = 0 THEN <<>>
    ELSE Flatten(entries, n - 1)
           \o <<entries[n].key_len>>
           \o (IF entries[n].key \in DOMAIN heap THEN heap[entries[n].key].data ELSE <<-1>>)
           \o <<entries[n].value_len>>
           \o (IF entries[n].value \in DOMAIN heap THEN heap[entries[n].value].data
               ELSE <<-1>>)

\* slot op holds response r (status, value_len, payload), decoded as op's command asks
Decoded(op, r) ==
    /\ op.status = r.status
    /\ op.value_len = r.value_len
    /\ IF op.cmd \in {RIOC_CMD_GET, RIOC_CMD_ATOMIC_INC_DEC} /\ r.value_len > 0
       THEN /\ op.value_ptr \in DOMAIN heap
            /\ heap[op.value_ptr].kind = "bytes"
            /\ heap[op.value_ptr].data = r.payload
       ELSE IF op.cmd = RIOC_CMD_RANGE_QUERY /\ r.value_len > 0
       THEN /\ op.value_ptr \in DOMAIN heap
            /\ heap[op.value_ptr].kind = "range"
            /\ Len(heap[op.value_ptr].data) = r.value_len
            /\ Flatten(heap[op.value_ptr].data, r.value_len) = r.payload
       ELSE op.value_ptr = (IF op.req_value_len > 0 THEN STAGED ELSE NULL)

\* the buffers reachable from a slot's result pointer
Reach(op) ==
    IF op.value_ptr \notin DOMAIN heap THEN {}
    ELSE {op.value_ptr} \cup
         (IF heap[op.value_ptr].kind = "range"
          THEN EntryBufs(heap[op.value_ptr].data, Len(heap[op.value_ptr].data)) \ {NULL}
          ELSE {})

LiveBufs == {x \in DOMAIN heap : heap[x].live}

\* slot i of batch b has had a response header stored in it
Populated(b, i) == i < Len(hist.read[b])

(* ---- C1 ---- *)

\* C1: the receiver consumes the responses in request order: the k-th response
\* header read from the session is the server's k-th response and is stored as
\* the status and value_len of operation k, the payload of every counted
\* operation k is decoded as operation k's command asks, and no slot beyond
\* the headers read so far has anything attributed to it.
C1_InOrder ==
    \A b \in Batches :
       LET log == hist.read[b] IN
       /\ Len(log) <= batch[b].count
       /\ Len(log) <= Len(hist.sent)
       /\ \A k \in 1..Len(log) :
             /\ HeaderStatus(log[k]) = hist.sent[k].status
             /\ log[k].value_len = hist.sent[k].value_len
             /\ batch[b].ops[k].status = HeaderStatus(log[k])
             /\ batch[b].ops[k].value_len = log[k].value_len
       /\ \A k \in 1..batch[b].count : k > Len(log) => Untouched(batch[b].ops[k])
       /\ trk[b].responses_received <= Len(log)
       /\ \A k \in 1..trk[b].responses_received : Decoded(batch[b].ops[k], hist.sent[k])

\* two responses consumed: a decoded range result in slot 0, KeyNotFound for the Get in slot 1
C1_Witness ==
    \E b \in Batches :
       /\ trk[b].responses_received = 2
       /\ batch[b].ops[1].cmd = RIOC_CMD_RANGE_QUERY
       /\ batch[b].ops[1].value_len = 1
       /\ batch[b].ops[2].cmd = RIOC_CMD_GET
       /\ batch[b].ops[2].status = RIOC_ERR_NOENT

(* ---- C2 ---- *)

\* C2 as stated: at every point slot i is populated exactly when the receiver
\* has received (counted) the i-th response.
C2_PopulatedIffReceived ==
    \A b \in Batches : \A i \in 0..(batch[b].count - 1) :
       Populated(b, i) <=> trk[b].responses_received > i

\* C2, amended: every slot below responses_received holds its response (status,
\* value_len and decoded payload); at most one further slot, the one at index
\* responses_received, has its header stored already, while the receiver works
\* on that operation or after it gave up on it; no slot beyond that is populated.
C2_SlotsAndMark ==
    \A b \in Batches :
       LET n == trk[b].responses_received IN
       /\ n <= Len(hist.read[b])
       /\ Len(hist.read[b]) <= n + 1
       /\ \A k \in 1..n : k <= batch[b].count /\ Decoded(batch[b].ops[k], hist.sent[k])
       /\ Len(hist.read[b]) = n + 1 =>
             /\ rcv[b].i = n
             /\ rcv[b].pc \notin {"none", "start", "hdr", "finish"}
             /\ rcv[b].pc \in {"setdone", "exited"} => hist.failed[b] # "none"

\* the receiver gave up after storing the header of an operation it never counted
C2_Witness ==
    \E b \in Batches :
       /\ rcv[b].pc = "exited"
       /\ trk[b].error # RIOC_SUCCESS
       /\ trk[b].responses_received = 1
       /\ Populated(b, 1)

(* ---- C3 ---- *)

\* C3: a wait that returns with the completion flag set returns the aggregate
\* status and the receiver has finished; a wait that returns before that was
\* called with timeout_ms > 0, timed out, and returns RIOC_ERR_IO.  So a wait
\* with timeout 0 returns only after completion, and no wait returns the
\* aggregate status while the receiver is in flight.
C3_Wait ==
    ret.call = "wait" =>
       IF trk[ret.b].completed = 1
       THEN ret.val = trk[ret.b].error /\ ~Running(ret.b)
       ELSE ret.idx > 0 /\ ret.val = RIOC_ERR_IO /\ Running(ret.b)

\* wait(0) returned the receiver's allocation failure
C3_Witness ==
    /\ ret.call = "wait"
    /\ ret.idx = 0
    /\ ret.val = RIOC_ERR_MEM
    /\ trk[ret.b].completed = 1

(* ---- C4 ---- *)

C5_OneReceiver == Cardinality({b \in Batches : Running(b)}) <= 1

(* ---- C6 ---- *)

\* C6: rioc_batch_tracker_free releases nothing before the receiver has
\* returned: while the receiver runs the tracker and every buffer a slot points
\* to are intact, also when the call was made while the receiver was running.
C6_JoinBeforeFree ==
    \A b \in Batches :
       /\ trk[b].st = "freed" => ~Running(b)
       /\ Running(b) =>
             \A k \in 1..batch[b].count : Reach(batch[b].ops[k]) \subseteq LiveBufs
       /\ (app.pc = "join" /\ app.b = b) => trk[b].st = "live"

\* a retire called while the receiver was running has returned and freed a buffer
C6_Witness ==
    /\ ret.call = "tracker_free"
    /\ ret.b \in hist.early
    /\ trk[ret.b].st = "freed"
    /\ \E k \in 1..batch[ret.b].count :
          /\ batch[ret.b].ops[k].value_ptr \in DOMAIN heap
          /\ ~heap[batch[ret.b].ops[k].value_ptr].live

(* ---- C7 ---- *)

\* what every failed receiver leaves behind, whatever slot i holds
FailureRecorded(b) ==
    /\ trk[b].error = (IF hist.failed[b] = "io" THEN RIOC_ERR_IO ELSE RIOC_ERR_MEM)
    /\ rcv[b].pc = "exited"
    /\ rcv[b].i < batch[b].count
    /\ trk[b].responses_received = rcv[b].i
    /\ trk[b].st = "live" =>
          LiveBufs \subseteq UNION {Reach(batch[b].ops[k]) : k \in 1..rcv[b].i}
    /\ (ret.call = "wait" /\ ret.b = b) => ret.val = trk[b].error

\* C7 as stated: after the first failure, at operation i, the error is recorded,
\* completion is set, partial results are freed, and no slot with index >= i
\* is filled.
C7_NoSlotFromFailure ==
    \A b \in Batches :
       (trk[b].completed = 1 /\ hist.failed[b] # "none") =>
          /\ FailureRecorded(b)
          /\ \A k \in 1..batch[b].count : k > rcv[b].i => Untouched(batch[b].ops[k])

\* C7, amended: after the first failure, at operation i, the error is recorded,
\* completion is set, partial results are freed, responses_received stays i,
\* no slot with index > i is filled and slot i has no result attached; slot i
\* itself may hold the status and value_len of its header.
C7_FirstFailure ==
    \A b \in Batches :
       (trk[b].completed = 1 /\ hist.failed[b] # "none") =>
          /\ FailureRecorded(b)
          /\ Len(hist.read[b]) <= rcv[b].i + 1
          /\ \A k \in 1..batch[b].count : k > rcv[b].i + 1 => Untouched(batch[b].ops[k])
          /\ LET op == batch[b].ops[rcv[b].i + 1] IN
                op.value_ptr = (IF op.req_value_len > 0 THEN STAGED ELSE NULL)

\* a receive failed inside a range result after a key had been copied: the
\* copy is freed, the header of the operation stays in its slot
C7_Witness ==
    \E b \in Batches :
       /\ trk[b].completed = 1
       /\ hist.failed[b] = "io"
       /\ trk[b].st = "live"
       /\ Len(hist.read[b]) = rcv[b].i + 1
       /\ \E x \in DOMAIN heap : heap[x].kind = "bytes" /\ ~heap[x].live

(* ---- C8 ---- *)

\* C8: once the receiver has finished, the aggregate status is RIOC_SUCCESS
\* exactly when it consumed all count responses; only a failed receive or
\* allocation stops it, no slot status does (KeyNotFound is stored verbatim),
\* and a wait that returns then reports RIOC_SUCCESS in exactly that case.
C8_Aggregate ==
    \A b \in Batches :
       trk[b].completed = 1 =>
          /\ trk[b].error = RIOC_SUCCESS <=> trk[b].responses_received = batch[b].count
          /\ hist.failed[b] = "none" <=> trk[b].error = RIOC_SUCCESS
          /\ \A k \in 1..trk[b].responses_received :
                batch[b].ops[k].status = hist.sent[k].status
          /\ (ret.call = "wait" /\ ret.b = b) =>
                (ret.val = RIOC_SUCCESS <=> trk[b].responses_received = batch[b].count)

\* wait returned Success for a batch of two whose first slot holds KeyNotFound
C8_Witness ==
    /\ ret.call = "wait"
    /\ ret.val = RIOC_SUCCESS
    /\ batch[ret.b].count = 2
    /\ trk[ret.b].responses_received = 2
    /\ batch[ret.b].ops[1].status = RIOC_ERR_NOENT

(* ---- C9 ---- *)

\* C9: once a send or receive on the session has failed, every later submit
\* returns no tracker and attempts no I/O.
C9_SessionInvalid ==
    [][(hist.ioerr /\ ret'.call = "submit") => (ret'.ptr = NULL /\ ~ret'.io)]_vars

(* ---- C10 ---- *)

\* C10 as stated: a submit whose send fails leaves no tracker and no receiver,
\* and has released the batch.
C10_FailedSubmitRetires ==
    (ret.call = "submit" /\ ret.io /\ ret.ptr = NULL) =>
       /\ trk[ret.b].st = "none"
       /\ rcv[ret.b].pc = "none"
       /\ batch[ret.b].st = "freed"

\* C10, amended: a submit whose send fails leaves no tracker and no receiver,
\* and leaves the batch allocated, with its operations as assembled, owned by
\* the caller.
C10_FailedSubmit ==
    (ret.call = "submit" /\ ret.io /\ ret.ptr = NULL) =>
       /\ trk[ret.b].st = "none"
       /\ rcv[ret.b].pc = "none"
       /\ batch[ret.b].st = "open"
       /\ batch[ret.b].count > 0
       /\ \A k \in 1..batch[ret.b].count : Untouched(batch[ret.b].ops[k])

\* the send of a batch of two failed
C10_Witness ==
    /\ ret.call = "submit"
    /\ ret.io
    /\ ret.ptr = NULL
    /\ batch[ret.b].count = 2

(* ---- C11 ---- *)

\* C11: retirement is idempotent: once rioc_batch_tracker_free has returned no
\* op of the batch points at a released buffer, and a second call on the same
\* tracker frees nothing and touches nothing that was freed.
C11_RetireIdempotent ==
    /\ \A b \in Batches :
          trk[b].st = "freed" =>
             \A k \in 1..batch[b].count :
                ~(batch[b].ops[k].value_ptr \in DOMAIN heap
                    /\ ~heap[batch[b].ops[k].value_ptr].live)
    /\ "use_after_free" \notin hist.ub
    /\ "double_free" \notin hist.ub

(* ---- C12 ---- *)

Phase(b) ==
    IF trk[b].st = "none" THEN "ASSEMBLED"
    ELSE IF trk[b].completed = 0 THEN "IN_FLIGHT"
    ELSE "COMPLETE"

\* C13: a submission moves ASSEMBLED -> IN_FLIGHT -> COMPLETE and in no other
\* way; COMPLETE is never left, the completion flag is never cleared, and the
\* aggregate status of a complete tracker (Success, RIOC_ERR_MEM or
\* RIOC_ERR_IO) never changes.
C13_StateMachine ==
    [][\A b \in Batches :
          /\ \/ Phase(b)' = Phase(b)
             \/ Phase(b) = "ASSEMBLED" /\ Phase(b)' = "IN_FLIGHT"
             \/ Phase(b) = "IN_FLIGHT" /\ Phase(b)' = "COMPLETE"
          /\ trk[b].completed = 1 =>
                /\ trk'[b].completed = 1
                /\ trk'[b].error = trk[b].error
                /\ trk[b].error \in {RIOC_SUCCESS, RIOC_ERR_MEM, RIOC_ERR_IO}]_vars

\* a complete tracker carrying RIOC_ERR_IO whose wait(0) has just returned it
C13_Witness ==
    /\ ret.call = "wait"
    /\ ret.idx = 0
    /\ ret.val = RIOC_ERR_IO
    /\ Phase(ret.b) = "COMPLETE"
    /\ trk[ret.b].error = RIOC_ERR_IO

(* ---- a server whose responses carry any value_len ---- *)

\* the adders used in the runs with this server: rioc_batch_add_get, _insert,
\* _atomic_inc_dec
AddArgsLoose ==
    {a \in AddArgs : a[1] \in {RIOC_CMD_GET, RIOC_CMD_INSERT, RIOC_CMD_ATOMIC_INC_DEC}}

BatchAddLoose(b) ==
    /\ app.pc = "idle"
    /\ batch[b].st = "open"
    /\ trk[b].st = "none"
    /\ batch[b].count < MaxOpsTwo
    /\ \E a \in AddArgsLoose :
          batch' = [batch EXCEPT
                      ![b].ops = Append(@, NewOp(a[1], StagedPtr(a[2], a[3]), a[3])),
                      ![b].count = @ + 1]
    /\ ret' = Returns("add", b, batch[b].count, RIOC_SUCCESS, NULL, FALSE)
    /\ UNCHANGED <<trk, rcv, heap, wire, reqq, srvSeq, app, hist>>

AppLoose(b) ==
    \/ BatchCreate(b) \/ BatchAddLoose(b) \/ Submit(b)
    \/ WaitCall(b) \/ WaitPoll(b) \/ WaitReturn(b)
    \/ GetResponse(b)
    \/ TrackerFreeCall(b) \/ TrackerFreeJoin(b) \/ TrackerFreeAgain(b) \/ BatchFree(b)

\* successful AtomicIncDec responses whose value is shorter than a counter
ShortCounterReplies(cmd, s) ==
    IF cmd = RIOC_CMD_ATOMIC_INC_DEC
    THEN {[status |-> RIOC_SUCCESS, value_len |-> n, payload |-> Cells(n, Byte(s))]
            : n \in 0..MaxValueLen}
    ELSE {}

\* error responses with a non-zero value_len, followed by that many bytes
ErrRepliesWithValue(s) ==
    {[status |-> RIOC_ERR_NOENT, value_len |-> n, payload |-> Cells(n, Byte(s))]
       : n \in 1..MaxValueLen}

ServerRespondLoose ==
    /\ reqq # <<>>
    /\ \E b \in Batches : Need(b) > Len(wire)
    /\ \E r \in Replies(Head(reqq), srvSeq) \cup ErrRepliesWithValue(srvSeq)
                    \cup ShortCounterReplies(Head(reqq), srvSeq) :
          /\ wire' = wire \o <<StatusHi(r.status), StatusLo(r.status), r.value_len>>
                          \o r.payload
          /\ hist' = [hist EXCEPT !.sent = Append(@, r)]
    /\ reqq' = Tail(reqq)
    /\ srvSeq' = srvSeq + 1
    /\ ret' = NoRet
    /\ UNCHANGED <<batch, trk, rcv, heap, app>>

NextLoose ==
    \/ \E b \in Single : AppLoose(b)
    \/ \E b \in Single : ReceiverTwo(b)
    \/ ServerRespondLoose

SpecLoose == Init /\ [][NextLoose]_vars

(* ---- C14 ---- *)

\* C14: when a response header carries a non-success status the receiver reads
\* no payload for that operation, whatever value_len the header carries: no
\* slot with a non-success status has a result buffer attached, and the
\* receiver has taken from the session exactly the headers of such operations.
C14_NoPayloadOnError ==
    \A b \in Batches : \A k \in 1..batch[b].count :
       (k <= Len(hist.read[b]) /\ batch[b].ops[k].status # RIOC_SUCCESS) =>
          /\ batch[b].ops[k].value_ptr \notin DOMAIN heap
          /\ ~(rcv[b].pc = "value" /\ rcv[b].i = k - 1)

(* ---- C15 ---- *)

\* pointer p, with the value_len of op, is the payload variant of op's command
\* for a successful response: bytes for a Get, the 8 counter bytes for an
\* AtomicIncDec, a results array for a RangeQuery (nothing when value_len is 0),
\* nothing for Insert and Delete
VariantOf(op, p) ==
    IF op.cmd \in {RIOC_CMD_GET, RIOC_CMD_ATOMIC_INC_DEC} /\ op.value_len > 0
    THEN p \in DOMAIN heap /\ heap[p].kind = "bytes" /\ Len(heap[p].data) = op.value_len
    ELSE IF op.cmd = RIOC_CMD_RANGE_QUERY /\ op.value_len > 0
    THEN p \in DOMAIN heap /\ heap[p].kind = "range" /\ Len(heap[p].data) = op.value_len
    ELSE p = NULL

\* C15: a lookup of an available slot whose status is not Success yields a null
\* value, whatever the operation's kind; for a slot whose status is Success it
\* yields the payload variant of the operation's command.
C15_PayloadByStatus ==
    (ret.call = "get" /\ ret.idx < batch[ret.b].count
        /\ ret.idx < trk[ret.b].responses_received) =>
       IF ret.val # RIOC_SUCCESS THEN ret.ptr = NULL
       ELSE VariantOf(OpAt(ret.b, ret.idx), ret.ptr)

(* ---- C16 ---- *)

\* C16: for an Insert or Delete operation the receiver takes the response
\* header from the session and nothing more (it is never reading a value or a
\* range entry for it), and a lookup of the slot yields a null value.
C16_InsertDelete ==
    /\ \A b \in Batches :
          (Running(b) /\ rcv[b].pc \notin {"start", "finish", "setdone"}
              /\ OpAt(b, rcv[b].i).cmd \in {RIOC_CMD_INSERT, RIOC_CMD_DELETE})
             => rcv[b].pc \in {"hdr", "advance"}
    /\ (ret.call = "get" /\ ret.idx < batch[ret.b].count
          /\ ret.idx < trk[ret.b].responses_received
          /\ OpAt(ret.b, ret.idx).cmd \in {RIOC_CMD_INSERT, RIOC_CMD_DELETE})
         => ret.ptr = NULL

(* ---- C17 ---- *)

\* C17: for a successful AtomicIncDec response the batch receiver accepts only
\* an 8-byte counter: a slot it has counted holds value_len 8 and 8 payload
\* bytes, and when the response carried another value_len the slot is not
\* counted and the receiver finishes with RIOC_ERR_PROTO.
C17_AtomicEightBytes ==
    \A b \in Batches : \A k \in 1..Len(hist.read[b]) :
       (batch[b].ops[k].cmd = RIOC_CMD_ATOMIC_INC_DEC
           /\ batch[b].ops[k].status = RIOC_SUCCESS) =>
          IF batch[b].ops[k].value_len = SizeofInt64
          THEN k <= trk[b].responses_received =>
                  /\ batch[b].ops[k].value_ptr \in DOMAIN heap
                  /\ Len(heap[batch[b].ops[k].value_ptr].data) = SizeofInt64
          ELSE /\ k > trk[b].responses_received
               /\ trk[b].completed = 1 => trk[b].error = RIOC_ERR_PROTO

(* ---- the request side: size limits and what is transmitted ---- *)
(* Here an operation keeps its header (command, key_len, value_len), the   *)
(* batch keeps its batch_header, and reqq holds the transmissions as they  *)
(* were written to the session.                                            *)

MaxSingleOps == 1   \* single-operation calls that reach the session in one run

RECURSIVE BitOr(_, _)
BitOr(x, y) ==
    IF x = 0 THEN y
    ELSE IF y = 0 THEN x
    ELSE (IF x % 2 = 1 \/ y % 2 = 1 THEN 1 ELSE 0) + 2 * BitOr(x \div 2, y \div 2)

\* the batch header as rioc_batch_create and send_op fill it
BatchHeader(count) ==
    [magic |-> RIOC_MAGIC, version |-> RIOC_VERSION, count |-> count,
     flags |-> BitOr(RIOC_FLAG_PIPELINE, RIOC_FLAG_MORE)]

KeyLens == {RIOC_MAX_KEY_SIZE, RIOC_MAX_KEY_SIZE + 1}
ValueLens == {100001, RIOC_MAX_VALUE_SIZE, RIOC_MAX_VALUE_SIZE + 1}

\* the calls of the application: command, key_len, whether a value is passed,
\* value_len (for a range query: the start key's and the end key's length)
Calls ==
    {[command |-> RIOC_CMD_GET, key_len |-> k, value |-> FALSE, value_len |-> 0]
        : k \in KeyLens}
    \cup {[command |-> RIOC_CMD_INSERT, key_len |-> k, value |-> TRUE, value_len |-> v]
        : k \in KeyLens, v \in ValueLens}
    \cup {[command |-> RIOC_CMD_DELETE, key_len |-> k, value |-> FALSE, value_len |-> 0]
        : k \in KeyLens}
    \cup {[command |-> RIOC_CMD_RANGE_QUERY, key_len |-> k, value |-> TRUE, value_len |-> e]
        : k \in KeyLens, e \in KeyLens}
    \cup {[command |-> RIOC_CMD_ATOMIC_INC_DEC, key_len |-> k, value |-> TRUE,
           value_len |-> SizeofInt64] : k \in KeyLens}

\* rioc_atomic_inc_dec is also called with an empty key
SingleCalls ==
    Calls \cup {[command |-> RIOC_CMD_ATOMIC_INC_DEC, key_len |-> 0, value |-> TRUE,
                 value_len |-> SizeofInt64]}

\* the call that fills the slots between the first and the last
FillCall ==
    [command |-> RIOC_CMD_GET, key_len |-> RIOC_MAX_KEY_SIZE, value |-> FALSE, value_len |-> 0]

\* the counts at which the application tries every call, and those at which
\* it submits; in between it fills the batch
VariedSlots == {0, RIOC_MAX_BATCH_SIZE - 1, RIOC_MAX_BATCH_SIZE}
SubmitCounts == {0, 1, RIOC_MAX_BATCH_SIZE - 1, RIOC_MAX_BATCH_SIZE}

ReturnsOf(call, b, args, val, io) ==
    [call |-> call, b |-> b, idx |-> 0, val |-> val, ptr |-> NULL, io |-> io,
     args |-> args]

\* a run either assembles a batch or makes single-operation calls: send_op has
\* its own batch header and touches no batch
rioc_batch_create(b) ==
    /\ app.pc = "idle"
    /\ batch[b].st = "none"
    /\ reqq = <<>>
    /\ batch' = [batch EXCEPT ![b] = [st |-> "open", count |-> 0, ops |-> <<>>,
                                      batch_header |-> BatchHeader(0)]]
    /\ ret' = Returns("create", b, 0, 0, NULL, FALSE)
    /\ UNCHANGED <<trk, rcv, heap, wire, reqq, srvSeq, app, hist>>

\* the test of batch_add_op without the test of the count
batch_add_op_rejects_no_cap(count, key_len, value, value_len) ==
    \/ key_len > RIOC_MAX_KEY_SIZE
    \/ (value /\ value_len > RIOC_MAX_VALUE_SIZE)
\* the test batch_add_op starts with, for a batch and a key that are not NULL
batch_add_op_rejects(count, key_len, value, value_len) ==
    \/ key_len > RIOC_MAX_KEY_SIZE
    \/ (value /\ value_len > RIOC_MAX_VALUE_SIZE)
    \/ count >= RIOC_MAX_BATCH_SIZE

\* the test rioc_batch_add_range_query starts with
rioc_batch_add_range_query_rejects(count, start_key_len, end_key_len) ==
    \/ start_key_len > RIOC_MAX_KEY_SIZE
    \/ end_key_len > RIOC_MAX_KEY_SIZE
    \/ count >= RIOC_MAX_BATCH_SIZE

AddRejects(count, c) ==
    IF c.command = RIOC_CMD_RANGE_QUERY
    THEN rioc_batch_add_range_query_rejects(count, c.key_len, c.value_len)
    ELSE batch_add_op_rejects(count, c.key_len, c.value, c.value_len)

\* the operation batch_add_op / rioc_batch_add_range_query store in the slot
StoredOp(c) ==
    [header |-> [command |-> c.command, key_len |-> c.key_len, value_len |-> c.value_len],
     value_ptr |-> StagedPtr(c.value, c.value_len)]

\* rioc_batch_add_get, _insert, _delete, _range_query, _atomic_inc_dec
rioc_batch_add(b) ==
    /\ app.pc = "idle"
    /\ batch[b].st = "open"
    /\ trk[b].st = "none"
    /\ \E c \in Calls :
          /\ batch[b].count \in VariedSlots \/ c = FillCall
          /\ IF AddRejects(batch[b].count, c)
             THEN /\ ret' = ReturnsOf("add", b, c, RIOC_ERR_PARAM, FALSE)
                  /\ hist' = [hist EXCEPT !.rejected_full =
                                 @ \/ batch[b].count >= RIOC_MAX_BATCH_SIZE]
                  /\ UNCHANGED batch
             ELSE /\ batch' = [batch EXCEPT ![b].ops = Append(@, StoredOp(c)),
                                            ![b].count = @ + 1]
                  /\ ret' = ReturnsOf("add", b, c, RIOC_SUCCESS, FALSE)
                  /\ UNCHANGED hist
    /\ UNCHANGED <<trk, rcv, heap, wire, reqq, srvSeq, app>>

\* line 587, skipped
HeaderAtSubmitStale(b) == batch[b].batch_header
\* line 587: batch->batch_header.count = batch->count
HeaderAtSubmit(b) == [batch[b].batch_header EXCEPT !.count = batch[b].count]

\* the iovs of rioc_batch_execute_async: the batch header, then for every
\* operation its header, its key and, if value_ptr is set, its value
BatchTransmission(b) ==
    [header |-> HeaderAtSubmit(b), header_len |-> SizeofBatchHeader,
     ops |-> [k \in 1..batch[b].count |->
                [command |-> batch[b].ops[k].header.command,
                 key_len |-> batch[b].ops[k].header.key_len,
                 value_len |-> batch[b].ops[k].header.value_len,
                 value_sent |-> IF batch[b].ops[k].value_ptr # NULL
                                THEN batch[b].ops[k].header.value_len ELSE 0]]]

\* rioc_batch_execute_async up to the start of the receiver
rioc_batch_execute_async(b) ==
    /\ app.pc = "idle"
    /\ batch[b].st = "open"
    /\ trk[b].st = "none"
    /\ batch[b].count \in SubmitCounts
    /\ IF batch[b].count = 0
       THEN /\ ret' = Returns("submit", b, 0, 0, NULL, FALSE)
            /\ UNCHANGED <<batch, trk, rcv, reqq, hist>>
       ELSE \/ /\ ret' = Returns("submit", b, 0, 0, NULL, FALSE)   \* no tracker
               /\ UNCHANGED <<batch, trk, rcv, reqq, hist>>
            \/ /\ batch' = [batch EXCEPT ![b].batch_header = HeaderAtSubmit(b)]
               /\ \/ /\ ret' = Returns("submit", b, 0, 0, NULL, FALSE)   \* no iovs
                     /\ UNCHANGED <<trk, rcv, reqq, hist>>
                  \/ /\ ret' = Returns("submit", b, 0, 0, NULL, TRUE)    \* send fails
                     /\ hist' = [hist EXCEPT !.ioerr = TRUE]
                     /\ UNCHANGED <<trk, rcv, reqq>>
                  \/ /\ reqq' = Append(reqq, BatchTransmission(b))
                     /\ trk' = [trk EXCEPT ![b] = NewTracker]
                     /\ rcv' = [rcv EXCEPT ![b] = [NoThread EXCEPT !.pc = "start"]]
                     /\ ret' = Returns("submit", b, 0, 0, b, TRUE)
                     /\ UNCHANGED hist
    /\ UNCHANGED <<heap, wire, srvSeq, app>>

\* the parameter test of rioc_insert without the value limit
SingleOpRejectsKeyOnly(c) ==
    \/ c.key_len > RIOC_MAX_KEY_SIZE
    \/ (c.command = RIOC_CMD_RANGE_QUERY /\ c.value_len > RIOC_MAX_KEY_SIZE)
    \/ (c.command = RIOC_CMD_ATOMIC_INC_DEC /\ c.key_len = 0)
\* the parameter tests of rioc_get, rioc_insert, rioc_delete, rioc_range_query
\* and rioc_atomic_inc_dec, for pointers that are not NULL
SingleOpRejects(c) ==
    \/ c.key_len > RIOC_MAX_KEY_SIZE
    \/ (c.command = RIOC_CMD_INSERT /\ c.value_len > RIOC_MAX_VALUE_SIZE)
    \/ (c.command = RIOC_CMD_RANGE_QUERY /\ c.value_len > RIOC_MAX_KEY_SIZE)
    \/ (c.command = RIOC_CMD_ATOMIC_INC_DEC /\ c.key_len = 0)

\* the iovs of send_op and of rioc_range_query: batch header, op header, key, value
SingleTransmission(c) ==
    [header |-> BatchHeader(1), header_len |-> SizeofBatchHeader,
     ops |-> <<[command |-> c.command, key_len |-> c.key_len, value_len |-> c.value_len,
                value_sent |-> IF c.command = RIOC_CMD_RANGE_QUERY
                                  \/ (c.value /\ c.value_len > 0)
                               THEN c.value_len ELSE 0]>>]

\* rioc_get, rioc_insert, rioc_delete, rioc_range_query, rioc_atomic_inc_dec up to
\* the end of the send; a send that fails returns RIOC_ERR_IO (what it wrote
\* before it failed is not recorded)
single_op_call ==
    /\ app.pc = "idle"
    /\ \A b \in Single : batch[b].st = "none"
    /\ srvSeq < MaxSingleOps
    /\ \E c \in SingleCalls :
          IF SingleOpRejects(c)
          THEN /\ ret' = ReturnsOf("single", 0, c, RIOC_ERR_PARAM, FALSE)
               /\ UNCHANGED <<reqq, app, hist>>
          ELSE \/ /\ ret' = ReturnsOf("single", 0, c, RIOC_ERR_IO, TRUE)
                  /\ hist' = [hist EXCEPT !.ioerr = TRUE]
                  /\ UNCHANGED <<reqq, app>>
               \/ /\ reqq' = Append(reqq, SingleTransmission(c))
                  /\ app' = [pc |-> "single", b |-> 0, timeout |-> 0]
                  /\ ret' = NoRet
                  /\ UNCHANGED hist
    /\ UNCHANGED <<batch, trk, rcv, heap, wire, srvSeq>>

\* what the call returns once the response header is read: recv_response and
\* rioc_range_query return a status other than 0 as it is; rioc_atomic_inc_dec
\* returns RIOC_ERR_PROTO for a value that is not an int64_t
SingleOpResult(cmd, r) ==
    IF AsInt32(StatusHi(r.status), StatusLo(r.status)) # RIOC_SUCCESS
    THEN AsInt32(StatusHi(r.status), StatusLo(r.status))
    ELSE IF cmd = RIOC_CMD_ATOMIC_INC_DEC /\ r.value_len # SizeofInt64
    THEN RIOC_ERR_PROTO
    ELSE RIOC_SUCCESS

\* the receiving half of the single-operation calls, with the server's response;
\* the buffers handed to the caller are not modelled here
single_op_return ==
    /\ app.pc = "single"
    /\ LET cmd == reqq[Len(reqq)].ops[1].command IN
         \/ \E r \in Replies(cmd, srvSeq) :
               /\ ret' = Returns("single_done", 0, r.value_len, SingleOpResult(cmd, r),
                                 NULL, FALSE)
               /\ UNCHANGED hist
         \/ /\ ret' = Returns("single_done", 0, 0, RIOC_ERR_IO, NULL, TRUE)
            /\ hist' = [hist EXCEPT !.ioerr = TRUE]
    /\ app' = Idle
    /\ srvSeq' = srvSeq + 1
    /\ UNCHANGED <<batch, trk, rcv, heap, wire, reqq>>

InitRequest ==
    /\ batch = [b \in Batches |-> [st |-> "none", count |-> 0, ops |-> <<>>,
                                   batch_header |-> BatchHeader(0)]]
    /\ trk = [b \in Batches |-> NoTracker]
    /\ rcv = [b \in Batches |-> NoThread]
    /\ heap = <<>>
    /\ wire = <<>>
    /\ reqq = <<>>
    /\ srvSeq = 0
    /\ app = Idle
    /\ ret = NoRet
    /\ hist = [ioerr |-> FALSE, rejected_full |-> FALSE]

NextRequest ==
    \/ \E b \in Single :
          rioc_batch_create(b) \/ rioc_batch_add(b) \/ rioc_batch_execute_async(b)
            \/ BatchFree(b)
    \/ single_op_call
    \/ single_op_return

SpecRequest == InitRequest /\ [][NextRequest]_vars

\* the key of the call is longer than RIOC_MAX_KEY_SIZE (for a range query: the
\* start key or the upper-bound key)
KeyTooLong(c) ==
    \/ c.key_len > RIOC_MAX_KEY_SIZE
    \/ (c.command = RIOC_CMD_RANGE_QUERY /\ c.value_len > RIOC_MAX_KEY_SIZE)

\* the operations a transmission carries are the operations of the batch
SentOpsOf(t, b) ==
    /\ Len(t.ops) = batch[b].count
    /\ \A k \in 1..Len(t.ops) :
          /\ t.ops[k].command = batch[b].ops[k].header.command
          /\ t.ops[k].key_len = batch[b].ops[k].header.key_len
          /\ t.ops[k].value_len = batch[b].ops[k].header.value_len

(* ---- C18 ---- *)

InsertOverRejected(n) ==
    (ret'.call \in {"add", "single"}
        /\ ret'.args.command = RIOC_CMD_INSERT /\ ret'.args.value_len > n)
    => (ret'.val = RIOC_ERR_PARAM /\ batch' = batch /\ reqq' = reqq /\ app' = Idle)

\* C19 as stated: an Insert whose value is longer than 100000 bytes is rejected
\* with RIOC_ERR_PARAM; rioc_batch_add_insert does not change the batch and
\* rioc_insert sends nothing.
C19_Claimed == [][InsertOverRejected(100000)]_vars

\* C19: an Insert whose value is longer than RIOC_MAX_VALUE_SIZE (102400) bytes is
\* rejected with RIOC_ERR_PARAM, the batch is not changed and nothing is sent;
\* an Insert of at most that many bytes (100001, say) with a key of at most 512
\* bytes is accepted: by the add unless the batch is full, by rioc_insert always.
C19_ValueLimit ==
    [][/\ InsertOverRejected(RIOC_MAX_VALUE_SIZE)
       /\ (ret'.call \in {"add", "single"}
             /\ ret'.args.command = RIOC_CMD_INSERT
             /\ ret'.args.value_len <= RIOC_MAX_VALUE_SIZE
             /\ ret'.args.key_len <= RIOC_MAX_KEY_SIZE)
          => IF ret'.call = "add"
             THEN \/ batch[ret'.b].count >= RIOC_MAX_BATCH_SIZE
                  \/ /\ ret'.val = RIOC_SUCCESS
                     /\ batch'[ret'.b].count = batch[ret'.b].count + 1
             ELSE ret'.val # RIOC_ERR_PARAM
      ]_vars

\* rioc_insert has returned RIOC_ERR_PARAM for a value that is too long by one
C19_Witness ==
    /\ ret.call = "single"
    /\ ret.args.command = RIOC_CMD_INSERT
    /\ ret.args.value_len = RIOC_MAX_VALUE_SIZE + 1
    /\ ret.args.key_len <= RIOC_MAX_KEY_SIZE
    /\ ret.val = RIOC_ERR_PARAM
    /\ reqq = <<>>

(* ---- C20 ---- *)

MaxWireOps == 2     \* operations added to the batch in the byte-level runs
MaxSubmits == 2     \* successful submits of the batch in the byte-level runs

KeyStrings == {<<>>, <<65>>}
ValueStrings == {<<>>, <<66>>}
Timestamps == {0, 5}

\* int64_t values as four 16-bit limbs, least significant first:
\* 0, 1, -1, 2^62, -2^62
Deltas ==
    {<<0, 0, 0, 0>>, <<1, 0, 0, 0>>, <<65535, 65535, 65535, 65535>>,
     <<0, 0, 0, 16384>>, <<0, 0, 0, 49152>>}

\* the object representation of an int64_t with the bytes in reverse order
Int64BytesReversed(d) ==
    <<d[4] \div 256, d[4] % 256, d[3] \div 256, d[3] % 256,
      d[2] \div 256, d[2] % 256, d[1] \div 256, d[1] % 256>>
\* the object representation of an int64_t: what memcpy from &increment copies
Int64Bytes(d) ==
    <<d[1] % 256, d[1] \div 256, d[2] % 256, d[2] \div 256,
      d[3] % 256, d[3] \div 256, d[4] % 256, d[4] \div 256>>

\* memcpy(result, value, sizeof(int64_t))
Int64FromBytes(s) ==
    <<s[1] + 256 * s[2], s[3] + 256 * s[4], s[5] + 256 * s[6], s[7] + 256 * s[8]>>

\* the calls of the application with their buffers: value is FALSE for a NULL
\* value pointer; for a range query key is the start key and vbytes the end key
WireCall(cmd, key, value, vbytes, vlen, ts, delta) ==
    [command |-> cmd, key |-> key, key_len |-> Len(key), value |-> value,
     vbytes |-> vbytes, value_len |-> vlen, timestamp |-> ts, delta |-> delta]

WireCalls ==
    {WireCall(RIOC_CMD_GET, k, FALSE, <<>>, 0, 0, <<>>) : k \in KeyStrings}
    \cup {WireCall(RIOC_CMD_INSERT, k, TRUE, v, Len(v), t, <<>>)
            : k \in KeyStrings, v \in ValueStrings, t \in Timestamps}
    \cup {WireCall(RIOC_CMD_INSERT, k, FALSE, <<>>, n, t, <<>>)
            : k \in KeyStrings, n \in {0, 1}, t \in Timestamps}
    \cup {WireCall(RIOC_CMD_DELETE, k, FALSE, <<>>, 0, 5, <<>>) : k \in KeyStrings}
    \cup {WireCall(RIOC_CMD_RANGE_QUERY, k, TRUE, e, Len(e), 0, <<>>)
            : k \in KeyStrings, e \in KeyStrings}
    \cup {WireCall(RIOC_CMD_ATOMIC_INC_DEC, k, TRUE, Int64Bytes(d), SizeofInt64, 5, d)
            : k \in KeyStrings, d \in Deltas}

\* what goes to the transport: headers as they are, keys and values as bytes
HeaderItem(h) ==
    [t |-> "batch", a |-> h.magic, b |-> h.version, c |-> h.count, d |-> h.flags]
OpHeaderItem(cmd, key_len, value_len, ts) ==
    [t |-> "op", a |-> cmd, b |-> key_len, c |-> value_len, d |-> ts]
Bytes(s) == [k \in 1..Len(s) |-> [t |-> "byte", a |-> s[k], b |-> 0, c |-> 0, d |-> 0]]

\* batch_add_op / rioc_batch_add_range_query: header, key and, if the value is
\* staged, its copy in the value buffer
WireOp(c) ==
    [header |-> [command |-> c.command, key_len |-> c.key_len,
                 value_len |-> c.value_len, timestamp |-> c.timestamp],
     key |-> Take(c.key, c.key_len),
     value_ptr |-> StagedPtr(c.value, c.value_len),
     staged |-> IF c.value /\ c.value_len > 0 THEN Take(c.vbytes, c.value_len) ELSE <<>>]

BatchCreateBytes(b) ==
    /\ app.pc = "idle"
    /\ batch[b].st = "none"
    /\ reqq = <<>>
    /\ batch' = [batch EXCEPT ![b] = [st |-> "open", count |-> 0, ops |-> <<>>,
                                      batch_header |-> BatchHeader(0)]]
    /\ ret' = Returns("create", b, 0, 0, NULL, FALSE)
    /\ UNCHANGED <<trk, rcv, heap, wire, reqq, srvSeq, app, hist>>

\* the five adders; nothing in them asks whether the batch was submitted
BatchAddBytes(b) ==
    /\ app.pc = "idle"
    /\ batch[b].st = "open"
    /\ batch[b].count < MaxWireOps
    /\ \E c \in WireCalls :
          IF AddRejects(batch[b].count, c)
          THEN /\ ret' = ReturnsOf("add", b, c, RIOC_ERR_PARAM, FALSE)
               /\ UNCHANGED <<batch, hist>>
          ELSE /\ batch' = [batch EXCEPT ![b].ops = Append(@, WireOp(c)),
                                         ![b].count = @ + 1]
               /\ hist' = [hist EXCEPT !.calls = Append(@, c)]
               /\ ret' = ReturnsOf("add", b, c, RIOC_SUCCESS, FALSE)
    /\ UNCHANGED <<trk, rcv, heap, wire, reqq, srvSeq, app>>

\* lines 605-634: iovs[0] is the batch header; every operation adds its header,
\* its key (header.key_len bytes) and, if value_ptr is set, header.value_len
\* bytes from value_ptr
RECURSIVE OpIovs(_, _)
OpIovs(ops, n) ==
    IF n = 0 THEN <<>>
    ELSE OpIovs(ops, n - 1)
           \o <<OpHeaderItem(ops[n].header.command, ops[n].header.key_len,
                             ops[n].header.value_len, ops[n].header.timestamp)>>
           \o Bytes(Take(ops[n].key, ops[n].header.key_len))
           \o (IF ops[n].value_ptr # NULL
               THEN Bytes(Take(ops[n].staged, ops[n].header.value_len)) ELSE <<>>)

ExecuteAsyncIovs(b) ==
    <<HeaderItem(HeaderAtSubmit(b))>> \o OpIovs(batch[b].ops, batch[b].count)

\* rioc_batch_execute_async up to the start of the receiver; nothing in it asks
\* whether the batch was submitted before
ExecuteAsyncBytes(b) ==
    /\ app.pc = "idle"
    /\ batch[b].st = "open"
    /\ hist.trackers < MaxSubmits
    /\ IF batch[b].count = 0
       THEN /\ ret' = Returns("submit", b, 0, 0, NULL, FALSE)
            /\ UNCHANGED <<batch, trk, rcv, reqq, hist>>
       ELSE \/ /\ ret' = Returns("submit", b, 0, 0, NULL, FALSE)   \* no tracker
               /\ UNCHANGED <<batch, trk, rcv, reqq, hist>>
            \/ /\ batch' = [batch EXCEPT ![b].batch_header = HeaderAtSubmit(b)]
               /\ \/ /\ ret' = Returns("submit", b, 0, 0, NULL, FALSE)   \* no iovs
                     /\ UNCHANGED <<trk, rcv, reqq, hist>>
                  \/ /\ ret' = Returns("submit", b, 0, 0, NULL, TRUE)    \* send fails
                     /\ hist' = [hist EXCEPT !.ioerr = TRUE]
                     /\ UNCHANGED <<trk, rcv, reqq>>
                  \/ /\ reqq' = Append(reqq, [by |-> "submit", stream |-> ExecuteAsyncIovs(b),
                                              calls |-> hist.calls])
                     /\ trk' = [trk EXCEPT ![b] = NewTracker]
                     /\ rcv' = [rcv EXCEPT ![b] = [NoThread EXCEPT !.pc = "start"]]
                     /\ hist' = [hist EXCEPT !.trackers = @ + 1]
                     /\ ret' = Returns("submit", b, 0, 0, b, TRUE)
    /\ UNCHANGED <<heap, wire, srvSeq, app>>

\* the parameter tests of the single-operation calls, NULL pointers included:
\* rioc_insert returns RIOC_ERR_PARAM for a NULL value
SingleRejectsBytes(c) ==
    \/ SingleOpRejects(c)
    \/ (c.command = RIOC_CMD_INSERT /\ ~c.value)

\* send_op with the timestamp left out of the op header
SendOpIovsNoTimestamp(c) ==
    <<HeaderItem(BatchHeader(1)), OpHeaderItem(c.command, c.key_len, c.value_len, 0)>>
      \o Bytes(Take(c.key, c.key_len))
      \o (IF c.value /\ c.value_len > 0 THEN Bytes(Take(c.vbytes, c.value_len)) ELSE <<>>)
\* send_op: batch header with count 1, op header, key, and the value if
\* value && value_len > 0
SendOpIovs(c) ==
    <<HeaderItem(BatchHeader(1)),
      OpHeaderItem(c.command, c.key_len, c.value_len, c.timestamp)>>
      \o Bytes(Take(c.key, c.key_len))
      \o (IF c.value /\ c.value_len > 0 THEN Bytes(Take(c.vbytes, c.value_len)) ELSE <<>>)

\* rioc_range_query: batch header with count 1, op header with timestamp 0,
\* start key, end key
RangeQueryIovs(c) ==
    <<HeaderItem(BatchHeader(1)), OpHeaderItem(RIOC_CMD_RANGE_QUERY, c.key_len, c.value_len, 0)>>
      \o Bytes(Take(c.key, c.key_len))
      \o Bytes(Take(c.vbytes, c.value_len))

SingleIovs(c) ==
    IF c.command = RIOC_CMD_RANGE_QUERY THEN RangeQueryIovs(c) ELSE SendOpIovs(c)

\* the responses of the server to a single-operation call, byte by byte
WireReplies(cmd) ==
    {[status |-> RIOC_ERR_NOENT, value_len |-> 0, payload |-> <<>>]} \cup
    CASE cmd = RIOC_CMD_GET ->
           {[status |-> RIOC_SUCCESS, value_len |-> Len(v), payload |-> v]
              : v \in ValueStrings}
      [] cmd = RIOC_CMD_ATOMIC_INC_DEC ->
           {[status |-> RIOC_SUCCESS, value_len |-> SizeofInt64, payload |-> Int64Bytes(d)]
              : d \in Deltas}
      [] OTHER ->
           {[status |-> RIOC_SUCCESS, value_len |-> 0, payload |-> <<>>]}

ReturnsResult(call, args, val, io, reply, result) ==
    [call |-> call, b |-> 0, idx |-> 0, val |-> val, ptr |-> NULL, io |-> io,
     args |-> args, reply |-> reply, result |-> result]

\* the single-operation calls up to the end of the send
SingleOpBytes ==
    /\ app.pc = "idle"
    /\ \A b \in Single : batch[b].st = "none"
    /\ srvSeq < MaxSingleOps
    /\ \E c \in WireCalls :
          IF SingleRejectsBytes(c)
          THEN /\ ret' = ReturnsOf("single", 0, c, RIOC_ERR_PARAM, FALSE)
               /\ UNCHANGED <<reqq, app, hist>>
          ELSE \/ /\ ret' = ReturnsOf("single", 0, c, RIOC_ERR_IO, TRUE)
                  /\ hist' = [hist EXCEPT !.ioerr = TRUE]
                  /\ UNCHANGED <<reqq, app>>
               \/ /\ reqq' = Append(reqq, [by |-> "single", stream |-> SingleIovs(c),
                                           calls |-> <<c>>])
                  /\ app' = [pc |-> "single", b |-> 0, timeout |-> 0]
                  /\ ret' = NoRet
                  /\ UNCHANGED hist
    /\ UNCHANGED <<batch, trk, rcv, heap, wire, srvSeq>>

\* the receiving half: the status as SingleOpResult gives it; rioc_atomic_inc_dec
\* copies the 8 bytes of the value to *result
SingleDoneBytes ==
    /\ app.pc = "single"
    /\ LET c == reqq[Len(reqq)].calls[1] IN
         \/ \E r \in WireReplies(c.command) :
               /\ ret' = ReturnsResult("single_done", c, SingleOpResult(c.command, r), FALSE, r,
                            IF c.command = RIOC_CMD_ATOMIC_INC_DEC
                               /\ SingleOpResult(c.command, r) = RIOC_SUCCESS
                            THEN Int64FromBytes(r.payload) ELSE <<>>)
               /\ UNCHANGED hist
         \/ /\ ret' = ReturnsOf("single_done", 0, c, RIOC_ERR_IO, TRUE)
            /\ hist' = [hist EXCEPT !.ioerr = TRUE]
    /\ app' = Idle
    /\ srvSeq' = srvSeq + 1
    /\ UNCHANGED <<batch, trk, rcv, heap, wire, reqq>>

InitWire ==
    /\ batch = [b \in Batches |-> [st |-> "none", count |-> 0, ops |-> <<>>,
                                   batch_header |-> BatchHeader(0)]]
    /\ trk = [b \in Batches |-> NoTracker]
    /\ rcv = [b \in Batches |-> NoThread]
    /\ heap = <<>>
    /\ wire = <<>>
    /\ reqq = <<>>
    /\ srvSeq = 0
    /\ app = Idle
    /\ ret = NoRet
    /\ hist = [ioerr |-> FALSE, calls |-> <<>>, trackers |-> 0]

NextWire ==
    \/ \E b \in Single : BatchCreateBytes(b) \/ BatchAddBytes(b) \/ ExecuteAsyncBytes(b)
    \/ SingleOpBytes
    \/ SingleDoneBytes

SpecWire == InitWire /\ [][NextWire]_vars

(* ---- C21 ---- *)

\* the stream the claim describes for the operations added by the calls cs: the
\* op header, the key, and value_len bytes of value when value_len > 0
RECURSIVE ClaimedOps(_, _)
ClaimedOps(cs, n) ==
    IF n = 0 THEN <<>>
    ELSE ClaimedOps(cs, n - 1)
           \o <<OpHeaderItem(cs[n].command, cs[n].key_len, cs[n].value_len, cs[n].timestamp)>>
           \o Bytes(cs[n].key)
           \o (IF cs[n].value_len > 0 THEN Bytes(cs[n].vbytes) ELSE <<>>)

RECURSIVE ClaimedLen(_, _)
ClaimedLen(cs, n) ==
    IF n = 0 THEN 1 ELSE ClaimedLen(cs, n - 1) + 1 + cs[n].key_len + cs[n].value_len

\* C21: what a submit hands to the transport is the batch header, then for each
\* operation in the order it was added its op header with the caller's
\* timestamp, its key_len key bytes and, when value_len > 0, its value_len
\* value bytes.
C21_SubmitBytes ==
    \A k \in 1..Len(reqq) :
       reqq[k].by = "submit" =>
          /\ reqq[k].stream =
                <<HeaderItem(BatchHeader(Len(reqq[k].calls)))>>
                   \o ClaimedOps(reqq[k].calls, Len(reqq[k].calls))
          /\ Len(reqq[k].stream) = ClaimedLen(reqq[k].calls, Len(reqq[k].calls))

(* ---- C22 ---- *)

TailBytes(stream, n) == [k \in 1..n |-> stream[Len(stream) - n + k].a]

\* C30: an AtomicIncDec, added to a batch or sent by rioc_atomic_inc_dec, goes
\* out with value_len 8 and the 8 bytes of delta in native order, and
\* rioc_atomic_inc_dec decodes a reply of 8 bytes to the bit pattern the server
\* sent.
C30_CounterRoundTrip ==
    /\ \A k \in 1..Len(reqq) :
          (Len(reqq[k].calls) = 1
              /\ reqq[k].calls[1].command = RIOC_CMD_ATOMIC_INC_DEC)
          => /\ reqq[k].stream[2].c = 8
             /\ Len(reqq[k].stream) = 2 + reqq[k].calls[1].key_len + 8
             /\ Int64FromBytes(TailBytes(reqq[k].stream, 8)) = reqq[k].calls[1].delta
    /\ (ret.call = "single_done" /\ ~ret.io
           /\ ret.args.command = RIOC_CMD_ATOMIC_INC_DEC
           /\ ret.reply.status = RIOC_SUCCESS /\ ret.reply.value_len = 8)
       => /\ ret.val = RIOC_SUCCESS
          /\ Int64Bytes(ret.result) = ret.reply.payload

\* rioc_atomic_inc_dec sent 2^62 and decoded the reply -2^62
C30_Witness ==
    /\ ret.call = "single_done"
    /\ ~ret.io
    /\ ret.args.command = RIOC_CMD_ATOMIC_INC_DEC
    /\ ret.args.delta = <<0, 0, 0, 16384>>
    /\ ret.result = <<0, 0, 0, 49152>>

(* ---- C24 ---- *)

\* C24: a batch is transmitted at most once and gets at most one receiver: a
\* second rioc_batch_execute_async on it neither sends nor starts a receiver.
C24_OneTransmission ==
    /\ Cardinality({k \in 1..Len(reqq) : reqq[k].by = "submit"}) <= 1
    /\ hist.trackers <= 1

(* ---- C23 ---- *)

\* the cells recv_response (for rioc_range_query: its own loop) takes from the
\* session for the response r: the header, and the payload only for status 0,
\* value_len > 0 and a call that passes value and value_len
SingleOpConsumes(cmd, r) ==
    HdrCells +
      (IF AsInt32(StatusHi(r.status), StatusLo(r.status)) = RIOC_SUCCESS /\ r.value_len > 0
          /\ cmd \in {RIOC_CMD_GET, RIOC_CMD_ATOMIC_INC_DEC, RIOC_CMD_RANGE_QUERY}
       THEN Len(r.payload) ELSE 0)

\* the bytes the single-operation call hands to its caller
SingleOpValue(cmd, r) ==
    IF SingleOpResult(cmd, r) = RIOC_SUCCESS /\ r.value_len > 0
       /\ cmd \in {RIOC_CMD_GET, RIOC_CMD_ATOMIC_INC_DEC}
    THEN r.payload ELSE <<>>

\* the cells the server has put on the session so far
RECURSIVE CellsSent(_)
CellsSent(n) ==
    IF n = 0 THEN 0 ELSE CellsSent(n - 1) + HdrCells + Len(hist.sent[n].payload)

\* C23: for a batch of one operation that has completed, result(0) gives the
\* status and the value the single-operation call gives for the same response,
\* and the receiver took as many cells from the session as the call would.
C23_SingleEquivalent ==
    \A b \in Single :
       (trk[b].st = "live" /\ trk[b].completed = 1 /\ trk[b].responses_received = 1
           /\ batch[b].count = 1 /\ Len(hist.sent) = 1)
       => /\ GetResponseStatus(b, 0) = SingleOpResult(OpAt(b, 0).cmd, hist.sent[1])
          /\ CellsSent(1) - Len(wire) = SingleOpConsumes(OpAt(b, 0).cmd, hist.sent[1])
          /\ IF GetResponseValue(b, 0) \in DOMAIN heap
             THEN heap[GetResponseValue(b, 0)].data
                     = SingleOpValue(OpAt(b, 0).cmd, hist.sent[1])
             ELSE /\ GetResponseValue(b, 0) = NULL
                  /\ SingleOpValue(OpAt(b, 0).cmd, hist.sent[1]) = <<>>

(* ---- C25 ---- *)

\* C25: from submit until the tracker is retired the batch is read-only: its
\* count and, for every operation, the command, the value length and the
\* pointer to the staged request value stay as assembly left them, whatever the
\* receiver writes.
C25_ReadOnlyAfterSubmit ==
    [][\A b \in Batches :
          (trk[b].st = "live" /\ trk'[b].st = "live")
          => /\ batch'[b].count = batch[b].count
             /\ \A k \in 1..batch[b].count :
                   /\ batch'[b].ops[k].cmd = batch[b].ops[k].cmd
                   /\ batch'[b].ops[k].req_value_len = batch[b].ops[k].req_value_len
                   /\ batch[b].ops[k].value_ptr = STAGED
                        => batch'[b].ops[k].value_ptr = STAGED
      ]_vars

(* ---- C26 ---- *)

\* C26: the tracker owns its batch and the received buffers: once the tracker is
\* retired the batch is released and no buffer reachable from its slots is
\* live, the retire passes nothing to free() that is not a live buffer, and the
\* batch is not released while its tracker is live.
C26_TrackerOwnsBatch ==
    \A b \in Batches :
       /\ trk[b].st = "freed"
            => /\ batch[b].st = "freed"
               /\ \A k \in 1..batch[b].count : Reach(batch[b].ops[k]) \cap LiveBufs = {}
               /\ "bad_free" \notin hist.ub
       /\ batch[b].st = "freed" => trk[b].st # "live"

(* ---- the transfers on the socket ---- *)
(* One step is one call of recv, send, readv or writev.  app holds the      *)
(* transfer in progress: the function, the length asked for, the length     *)
(* done.                                                                    *)

MaxIoLen == 4       \* bytes one transfer asks for

\* the places that move bytes on a plain socket:
\* recv_all for len <= 4096 (one rioc_recv), recv_all for len > 4096 (readv loop),
\* the header read of recv_response (one rioc_recv), the send loop of send_op,
\* the loops of writev_all, and on a TLS session the loops of rioc_tls_read and
\* rioc_tls_write (SSL_ERROR_WANT_READ / WANT_WRITE is their would-block)
IoFunctions ==
    {"recv_all_small", "recv_all_large", "recv_response", "send_op", "writev_all",
     "rioc_tls_read", "rioc_tls_write"}

\* what one system call does when `remaining` bytes are asked for: it moves
\* 1..remaining bytes, or fails with EINTR, EAGAIN / EWOULDBLOCK, or for good
Outcomes(remaining) ==
    {[k |-> "data", n |-> m] : m \in 1..remaining}
      \cup {[k |-> e, n |-> -1] : e \in {"eintr", "eagain", "hard"}}

\* the failures the function's loop answers with `continue`
Retries(fn) ==
    CASE fn \in {"recv_all_large", "writev_all"} -> {"eintr", "eagain"}
      [] fn = "send_op" -> {"eintr"}
      [] fn \in {"rioc_tls_read", "rioc_tls_write"} -> {"eagain"}
      [] OTHER -> {}

\* whether the function calls again after moving fewer bytes than it needs
Loops(fn) ==
    fn \in {"recv_all_large", "send_op", "writev_all", "rioc_tls_read", "rioc_tls_write"}

ReturnsIo(fn, len, val, cause) ==
    [call |-> "io", b |-> 0, idx |-> len, val |-> val, ptr |-> NULL,
     io |-> val # RIOC_SUCCESS, fn |-> fn, cause |-> cause]

\* a transfer of len bytes begins
IoCall ==
    /\ app.pc = "idle"
    /\ \E fn \in IoFunctions, len \in 1..MaxIoLen :
          app' = [pc |-> "io", b |-> 0, timeout |-> 0, fn |-> fn, len |-> len, done |-> 0]
    /\ ret' = NoRet
    /\ UNCHANGED <<batch, trk, rcv, heap, wire, reqq, srvSeq, hist>>

\* one system call of the transfer and what the function and its caller make of
\* it: a function that does not loop returns the count, and its caller reports
\* RIOC_ERR_IO unless the count is the length asked for
IoStep ==
    /\ app.pc = "io"
    /\ \E o \in Outcomes(app.len - app.done) :
          IF o.k = "data"
          THEN IF app.done + o.n = app.len
               THEN /\ app' = Idle
                    /\ ret' = ReturnsIo(app.fn, app.len, RIOC_SUCCESS, "none")
               ELSE IF Loops(app.fn)
               THEN /\ app' = [app EXCEPT !.done = @ + o.n]
                    /\ ret' = NoRet
               ELSE /\ app' = Idle
                    /\ ret' = ReturnsIo(app.fn, app.len, RIOC_ERR_IO, "short")
          ELSE IF o.k \in Retries(app.fn)
               THEN /\ app' = app
                    /\ ret' = NoRet
               ELSE /\ app' = Idle
                    /\ ret' = ReturnsIo(app.fn, app.len, RIOC_ERR_IO, o.k)
    /\ UNCHANGED <<batch, trk, rcv, heap, wire, reqq, srvSeq, hist>>

NextIo == IoCall \/ IoStep

SpecIo == Init /\ [][NextIo]_vars

(* ---- C27 ---- *)

\* C27: a transfer reports RIOC_ERR_IO only after a hard error: an interrupted
\* call, a call that would block and a call that moves fewer bytes than asked
\* are retried.
C27_TransientRetried ==
    (ret.call = "io" /\ ret.val = RIOC_ERR_IO) => ret.cause = "hard"

(* ---- vectored writes on a TLS session ---- *)
(* rioc_tls_writev copies the buffers of an iovec list into chunk_buffer    *)
(* and hands full chunks to rioc_tls_write, which calls SSL_write until the *)
(* chunk is taken.  A stretch of bytes is a segment [buf, off, len]: len    *)
(* bytes of buffer buf from offset off.  wire holds the SSL_write calls     *)
(* that took bytes, each as the segments it carried.                        *)

RIOC_TLS_CHUNK_SIZE == 16000

MaxIov == 3         \* buffers in one iovec list
MaxPartials == 1    \* SSL_write calls of one rioc_tls_writev that take only a part

IovLens == {0, 1, 15999, 16000, 34000}

IovLists == UNION {[1..n -> IovLens] : n \in 0..MaxIov}

RECURSIVE SumLens(_)
SumLens(iov) == IF iov = <<>> THEN 0 ELSE Head(iov) + SumLens(Tail(iov))

RECURSIVE SegLen(_)
SegLen(segs) == IF segs = <<>> THEN 0 ELSE Head(segs).len + SegLen(Tail(segs))

\* the first n bytes of a list of segments
RECURSIVE TakeBytes(_, _)
TakeBytes(segs, n) ==
    IF n = 0 \/ segs = <<>> THEN <<>>
    ELSE IF Head(segs).len <= n
         THEN <<Head(segs)>> \o TakeBytes(Tail(segs), n - Head(segs).len)
         ELSE <<[Head(segs) EXCEPT !.len = n]>>

\* what is left of a list of segments after its first n bytes
RECURSIVE DropBytes(_, _)
DropBytes(segs, n) ==
    IF n = 0 \/ segs = <<>> THEN segs
    ELSE IF Head(segs).len <= n
         THEN DropBytes(Tail(segs), n - Head(segs).len)
         ELSE <<[Head(segs) EXCEPT !.off = @ + n, !.len = @ - n]>> \o Tail(segs)

\* size_t to_add = (remaining > can_add) ? can_add : remaining
ToAdd(remaining, can_add) == IF remaining > can_add THEN can_add ELSE remaining

\* the test that sends the chunk: it is full, or this is the last piece of
\* the last buffer
FlushNow(to_add, can_add, i, iovcnt, remaining) ==
    to_add = can_add \/ (i = iovcnt /\ remaining = to_add)

CopiedSegFromStart(i, offset, to_add) == [buf |-> i, off |-> 0, len |-> to_add]
\* memcpy(chunk_buffer + chunk_used, data + offset, to_add), data = iov[i].iov_base
CopiedSeg(i, offset, to_add) == [buf |-> i, off |-> offset, len |-> to_add]

\* size_t chunk_size = (remaining > RIOC_TLS_CHUNK_SIZE) ? RIOC_TLS_CHUNK_SIZE : remaining
SslChunkSize(remaining) ==
    IF remaining > RIOC_TLS_CHUNK_SIZE THEN RIOC_TLS_CHUNK_SIZE ELSE remaining

\* what one SSL_write of chunk_size bytes does: it takes all of them, takes a
\* part, asks to be called again, or fails
SslOutcomes(chunk_size, partials) ==
    {[k |-> "data", n |-> chunk_size]}
      \cup {[k |-> "data", n |-> m] :
               m \in {x \in {1, chunk_size \div 2} : x < chunk_size /\ partials < MaxPartials}}
      \cup {[k |-> e, n |-> -1] : e \in {"want", "hard"}}

ReturnsTls(iov, val) ==
    [call |-> "tls_writev", b |-> 0, idx |-> Len(iov), val |-> val, ptr |-> NULL,
     io |-> val = RIOC_ERR_IO, iov |-> iov]

\* rioc_tls_writev(tls_ctx, iov, iovcnt) up to the first pass of its for loop;
\* a run follows one call, the function keeps nothing from one call to the next
rioc_tls_writev ==
    /\ app.pc = "idle"
    /\ ret = NoRet
    /\ wire = <<>>
    /\ wire' = <<>>
    /\ \E iov \in IovLists :
          IF Len(iov) = 0
          THEN /\ app' = Idle
               /\ ret' = ReturnsTls(iov, RIOC_ERR_PARAM)
          ELSE /\ app' = [pc |-> "writev", b |-> 0, timeout |-> 0, iov |-> iov,
                          i |-> 1, remaining |-> iov[1], offset |-> 0,
                          chunk |-> <<>>, total |-> 0, pend |-> <<>>, len |-> 0,
                          after |-> "loop", partials |-> 0]
               /\ ret' = NoRet
    /\ UNCHANGED <<batch, trk, rcv, heap, reqq, srvSeq, hist>>

\* one pass of the while loop: a piece of the buffer goes into the chunk, and
\* the chunk goes to rioc_tls_write when the test says so
TlsWritevCopy ==
    /\ app.pc = "writev"
    /\ app.remaining > 0
    /\ LET can_add == RIOC_TLS_CHUNK_SIZE - SegLen(app.chunk)
           to_add == ToAdd(app.remaining, can_add)
           chunk == Append(app.chunk, CopiedSeg(app.i, app.offset, to_add))
           moved == [app EXCEPT !.offset = @ + to_add, !.remaining = @ - to_add]
       IN  IF FlushNow(to_add, can_add, app.i, Len(app.iov), app.remaining)
           THEN app' = [moved EXCEPT !.pc = "tls_write", !.chunk = <<>>,
                                     !.pend = chunk, !.len = SegLen(chunk),
                                     !.after = "loop"]
           ELSE app' = [moved EXCEPT !.chunk = chunk]
    /\ ret' = NoRet
    /\ UNCHANGED <<batch, trk, rcv, heap, wire, reqq, srvSeq, hist>>

\* the for loop moves to the next buffer
TlsWritevNextBuffer ==
    /\ app.pc = "writev"
    /\ app.remaining = 0
    /\ app.i < Len(app.iov)
    /\ app' = [app EXCEPT !.i = @ + 1, !.remaining = app.iov[app.i + 1], !.offset = 0]
    /\ ret' = NoRet
    /\ UNCHANGED <<batch, trk, rcv, heap, wire, reqq, srvSeq, hist>>

\* after the for loop: what is left in the chunk is written, then return total
TlsWritevFinish ==
    /\ app.pc = "writev"
    /\ app.remaining = 0
    /\ app.i = Len(app.iov)
    /\ IF SegLen(app.chunk) > 0
       THEN /\ app' = [app EXCEPT !.pc = "tls_write", !.chunk = <<>>,
                                  !.pend = app.chunk, !.len = SegLen(app.chunk),
                                  !.after = "return"]
            /\ ret' = NoRet
       ELSE /\ app' = Idle
            /\ ret' = ReturnsTls(app.iov, app.total)
    /\ UNCHANGED <<batch, trk, rcv, heap, wire, reqq, srvSeq, hist>>

\* one SSL_write of rioc_tls_write(tls_ctx, chunk_buffer, chunk_used), and the
\* return to rioc_tls_writev when the chunk is taken or the write fails
SslWrite ==
    /\ app.pc = "tls_write"
    /\ \E o \in SslOutcomes(SslChunkSize(SegLen(app.pend)), app.partials) :
          CASE o.k = "data" ->
                 /\ wire' = Append(wire, TakeBytes(app.pend, o.n))
                 /\ LET left == DropBytes(app.pend, o.n)
                        part == IF left = <<>> THEN 0 ELSE 1
                    IN  IF left # <<>>
                        THEN /\ app' = [app EXCEPT !.pend = left, !.partials = @ + part]
                             /\ ret' = NoRet
                        ELSE IF app.after = "loop"
                        THEN /\ app' = [app EXCEPT !.pc = "writev", !.pend = <<>>,
                                                   !.total = @ + app.len, !.len = 0]
                             /\ ret' = NoRet
                        ELSE /\ app' = Idle
                             /\ ret' = ReturnsTls(app.iov, app.total + app.len)
            [] o.k = "want" ->
                 /\ UNCHANGED <<wire, app>>
                 /\ ret' = NoRet
            [] OTHER ->
                 /\ UNCHANGED wire
                 /\ app' = Idle
                 /\ ret' = ReturnsTls(app.iov, RIOC_ERR_IO)
    /\ UNCHANGED <<batch, trk, rcv, heap, reqq, srvSeq, hist>>

NextTls ==
    \/ rioc_tls_writev
    \/ TlsWritevCopy
    \/ TlsWritevNextBuffer
    \/ TlsWritevFinish
    \/ SslWrite

SpecTls == Init /\ [][NextTls]_vars

(* ---- C28 ---- *)

\* the segments of all the writes, one after the other
RECURSIVE WrittenSegs(_)
WrittenSegs(writes) ==
    IF writes = <<>> THEN <<>> ELSE Head(writes) \o WrittenSegs(Tail(writes))

\* the same bytes with adjoining segments of one buffer joined and empty
\* segments left out
RECURSIVE Joined(_)
Joined(segs) ==
    IF segs = <<>> THEN <<>>
    ELSE IF Head(segs).len = 0 THEN Joined(Tail(segs))
    ELSE LET rest == Joined(Tail(segs))
         IN  IF rest # <<>> /\ Head(rest).buf = Head(segs).buf
                            /\ Head(rest).off = Head(segs).off + Head(segs).len
             THEN <<[Head(segs) EXCEPT !.len = @ + Head(rest).len]>> \o Tail(rest)
             ELSE <<Head(segs)>> \o rest

\* the buffers of an iovec list, whole and in order
RECURSIVE WholeBuffers(_, _)
WholeBuffers(iov, i) ==
    IF i > Len(iov) THEN <<>>
    ELSE <<[buf |-> i, off |-> 0, len |-> iov[i]]>> \o WholeBuffers(iov, i + 1)

\* C28: no SSL_write of rioc_tls_writev carries more than 16 000 bytes, and
\* when rioc_tls_writev returns a count, the bytes written are the buffers of
\* the list in order and the count is the sum of their lengths.
C28_VectorSemantics ==
    /\ app.pc \in {"writev", "tls_write"} \/ ret.call = "tls_writev"
          => \A w \in 1..Len(wire) : SegLen(wire[w]) <= RIOC_TLS_CHUNK_SIZE
    /\ (ret.call = "tls_writev" /\ ret.val >= 0)
          => /\ Joined(WrittenSegs(wire)) = Joined(WholeBuffers(ret.iov, 1))
             /\ ret.val = SumLens(ret.iov)

\* a list of 50 000 bytes with an empty buffer in it has been written, one of
\* the SSL_write calls having taken only a part
C28_Witness ==
    /\ ret.call = "tls_writev"
    /\ ret.val = 50000
    /\ \E i \in 1..Len(ret.iov) : ret.iov[i] = 0
    /\ Len(wire) >= 5

(* ---- the entries of a range query response ---- *)
(* Both decoders read every field of every entry into one scratch buffer of *)
(* 10 * RIOC_MAX_VALUE_SIZE bytes at buffer + offset, offset only growing,  *)
(* and copy key and value from there into buffers of their own.  An entry   *)
(* is [key_len, value_len]; its bytes are not told apart, only whether the  *)
(* copy is the entry as received (intact).                                  *)

MaxEntries == 10    \* entries in one range query response

SizeofKeyLen == 2       \* sizeof(uint16_t)
SizeofValueLen == 8     \* sizeof(size_t)

\* size_t buffer_size = RIOC_MAX_VALUE_SIZE * 10
RangeBufferSize == RIOC_MAX_VALUE_SIZE * 10

RangePaths == {"response_thread_func", "rioc_range_query"}

\* a short entry and the longest one the limits allow
RangeEntries ==
    {[key_len |-> 1, value_len |-> 1],
     [key_len |-> RIOC_MAX_KEY_SIZE, value_len |-> RIOC_MAX_VALUE_SIZE]}

\* the responses: a count in the header's value_len and that many entries
RangeResponses == UNION {[1..n -> RangeEntries] : n \in 1..MaxEntries}

\* the scratch bytes one entry takes
EntryBytes(e) == SizeofKeyLen + e.key_len + SizeofValueLen + e.value_len

\* what the decoder stores for entry j: two buffers of its own
RangeResult(j, e, intact) ==
    [key_len |-> e.key_len, value_len |-> e.value_len,
     key |-> 2 * j - 1, value |-> 2 * j, intact |-> intact]

ReturnsRange(path, val, sent, results) ==
    [call |-> "range", b |-> 0, idx |-> Len(results), val |-> val, ptr |-> NULL,
     io |-> val = RIOC_ERR_IO, path |-> path, sent |-> sent, results |-> results]

\* the header of a successful range query response with value_len > 0 has
\* been read: count = response.value_len, results and buffer are allocated
RangeDecodeBegin ==
    /\ app.pc = "idle"
    /\ ret = NoRet
    /\ \E path \in RangePaths, sent \in RangeResponses :
          app' = [pc |-> "range", b |-> 0, timeout |-> 0, path |-> path,
                  sent |-> sent, count |-> Len(sent), j |-> 0, offset |-> 0,
                  results |-> <<>>]
    /\ ret' = NoRet
    /\ UNCHANGED <<batch, trk, rcv, heap, wire, reqq, srvSeq, hist>>

\* one pass of the loop over the entries.  The four reads go to buffer + offset
\* without a look at buffer_size: an entry that ends beyond the buffer is
\* written outside the allocation, after which the copy may be intact, may be
\* something else, or the process may stop.
RangeDecodeEntry ==
    /\ app.pc = "range"
    /\ app.j < app.count
    /\ LET e == app.sent[app.j + 1]
           end == app.offset + EntryBytes(e)
           step(intact) ==
               [app EXCEPT !.j = @ + 1, !.offset = end,
                           !.results = Append(@, RangeResult(app.j + 1, e, intact))]
       IN  IF end <= RangeBufferSize
           THEN /\ app' = step(TRUE)
                /\ hist' = hist
           ELSE /\ \/ app' = step(TRUE)
                   \/ app' = step(FALSE)
                   \/ app' = [pc |-> "crashed", b |-> 0, timeout |-> 0]
                /\ hist' = [hist EXCEPT !.ub = @ \cup {"scratch_overflow"}]
    /\ ret' = NoRet
    /\ UNCHANGED <<batch, trk, rcv, heap, wire, reqq, srvSeq>>

\* after the last entry: free(buffer), the list goes to the operation's slot
\* (receiver) or to the caller (rioc_range_query)
RangeDecodeEnd ==
    /\ app.pc = "range"
    /\ app.j = app.count
    /\ app' = Idle
    /\ ret' = ReturnsRange(app.path, RIOC_SUCCESS, app.sent, app.results)
    /\ UNCHANGED <<batch, trk, rcv, heap, wire, reqq, srvSeq, hist>>

\* posix_memalign(&response_buffer, RIOC_CACHE_LINE_SIZE,
\*                RIOC_MAX_VALUE_SIZE + RIOC_CACHE_LINE_SIZE)
ResponseBufferSize == RIOC_MAX_VALUE_SIZE + RIOC_CACHE_LINE_SIZE

\* the value_len of the responses to a Get: one byte, the longest value, a
\* full response buffer, and one byte more
PayloadLens ==
    {1, RIOC_MAX_VALUE_SIZE, RIOC_MAX_VALUE_SIZE + RIOC_CACHE_LINE_SIZE,
     RIOC_MAX_VALUE_SIZE + RIOC_CACHE_LINE_SIZE + 1}

\* the receiver has read the header of a response to a Get or AtomicIncDec
\* with value_len > 0
ValueReadBegin ==
    /\ app.pc = "idle"
    /\ ret = NoRet
    /\ \E n \in PayloadLens :
          app' = [pc |-> "value", b |-> 0, timeout |-> 0, path |-> "response_thread_func",
                  vlen |-> n]
    /\ ret' = NoRet
    /\ UNCHANGED <<batch, trk, rcv, heap, wire, reqq, srvSeq, hist>>

\* lines 729-758: response.value_len bytes are received into response_buffer
\* without a look at its size, then copied to a buffer of value_len + 1 bytes;
\* a value longer than the response buffer is written outside the allocation
ValueRead ==
    /\ app.pc = "value"
    /\ IF app.vlen <= ResponseBufferSize
       THEN /\ app' = Idle
            /\ ret' = [call |-> "value", b |-> 0, idx |-> app.vlen, val |-> RIOC_SUCCESS,
                             ptr |-> NULL, io |-> FALSE]
            /\ hist' = hist
       ELSE /\ \/ /\ app' = Idle
                  /\ ret' = [call |-> "value", b |-> 0, idx |-> app.vlen, val |-> RIOC_SUCCESS,
                             ptr |-> NULL, io |-> FALSE]
               \/ /\ app' = [pc |-> "crashed", b |-> 0, timeout |-> 0]
                  /\ ret' = NoRet
            /\ hist' = [hist EXCEPT !.ub = @ \cup {"response_overflow"}]
    /\ UNCHANGED <<batch, trk, rcv, heap, wire, reqq, srvSeq>>

NextRange ==
    \/ RangeDecodeBegin \/ RangeDecodeEntry \/ RangeDecodeEnd
    \/ ValueReadBegin \/ ValueRead

SpecRange == Init /\ [][NextRange]_vars

(* ---- C29 ---- *)

\* C29: the decoder of a successful range query response finishes in both
\* paths, and its list has as many entries as the header announced, entry j
\* being the j-th entry received, with its key and value lengths, its bytes
\* intact, and key and value buffers shared with no other entry.
C29_RangeDecoded ==
    /\ app.pc = "crashed" => "scratch_overflow" \notin hist.ub
    /\ ret.call = "range" =>
          /\ ret.val = RIOC_SUCCESS
          /\ Len(ret.results) = Len(ret.sent)
          /\ \A j \in 1..Len(ret.results) :
                /\ ret.results[j].key_len = ret.sent[j].key_len
                /\ ret.results[j].value_len = ret.sent[j].value_len
                /\ ret.results[j].intact
          /\ \A j, k \in 1..Len(ret.results) :
                /\ ret.results[j].key # ret.results[k].value
                /\ j # k => /\ ret.results[j].key # ret.results[k].key
                            /\ ret.results[j].value # ret.results[k].value

(* ---- the caller's buffers and the batch's storage ---- *)
(* The caller owns two buffers, heap[1] for keys and heap[2] for values and *)
(* upper-bound keys, which it passes to the adders, writes to and frees as  *)
(* it likes.  An operation                                                  *)
(* of the batch keeps its key in op->key and its value in the value buffer: *)
(* a place is either bytes of the batch's own or a pointer to a caller's    *)
(* buffer.                                                                  *)

MaxCopyOps == 2     \* operations added to the batch in the runs with caller buffers

BufStrings == {<<65>>, <<66>>}

CallerBufs == {1, 2}
KeyBuf == 1
ValueBuf == 2

\* a place that points to the caller's buffer
StoredBytesByReference(ref, bytes, n) == [own |-> FALSE, bytes |-> <<>>, ref |-> ref]
\* memcpy(op->key, key, key_len); memcpy(value_dest, value, value_len): a place
\* in the batch's own storage holding the first n bytes of the caller's buffer
StoredBytes(ref, bytes, n) == [own |-> TRUE, bytes |-> Take(bytes, n), ref |-> NULL]

NoBytes == [own |-> TRUE, bytes |-> <<>>, ref |-> NULL]

\* the bytes a place yields when the submit reads it
PlaceBytes(p) == IF p.own THEN p.bytes ELSE heap[p.ref].data

\* the adders with the caller's buffers they are given: key buffer, value
\* buffer (0: none; for a range query the end key), and the delta of an
\* AtomicIncDec, which is passed by value
CopyCalls ==
    {[command |-> RIOC_CMD_GET, key |-> KeyBuf, value |-> 0, delta |-> <<>>],
     [command |-> RIOC_CMD_INSERT, key |-> KeyBuf, value |-> ValueBuf, delta |-> <<>>],
     [command |-> RIOC_CMD_DELETE, key |-> KeyBuf, value |-> 0, delta |-> <<>>],
     [command |-> RIOC_CMD_RANGE_QUERY, key |-> KeyBuf, value |-> ValueBuf, delta |-> <<>>],
     [command |-> RIOC_CMD_ATOMIC_INC_DEC, key |-> KeyBuf, value |-> 0,
      delta |-> <<1, 0, 0, 0>>]}

\* the operation batch_add_op / rioc_batch_add_range_query store
CopiedOp(c) ==
    [command |-> c.command,
     key |-> StoredBytes(c.key, heap[c.key].data, Len(heap[c.key].data)),
     value |-> IF c.command = RIOC_CMD_ATOMIC_INC_DEC
               THEN [own |-> TRUE, bytes |-> Int64Bytes(c.delta), ref |-> NULL]
               ELSE IF c.value = 0 THEN NoBytes
               ELSE StoredBytes(c.value, heap[c.value].data, Len(heap[c.value].data))]

\* the bytes the caller's buffers hold when the adder is called
BytesAtAdd(c) ==
    [command |-> c.command,
     key |-> heap[c.key].data,
     value |-> IF c.command = RIOC_CMD_ATOMIC_INC_DEC THEN Int64Bytes(c.delta)
               ELSE IF c.value = 0 THEN <<>> ELSE heap[c.value].data]

BatchCreateCopy(b) ==
    /\ app.pc = "idle"
    /\ batch[b].st = "none"
    /\ batch' = [batch EXCEPT ![b] = [st |-> "open", count |-> 0, ops |-> <<>>]]
    /\ ret' = Returns("create", b, 0, 0, NULL, FALSE)
    /\ UNCHANGED <<trk, rcv, heap, wire, reqq, srvSeq, app, hist>>

\* an adder called with buffers the caller still holds
BatchAddCopy(b) ==
    /\ app.pc = "idle"
    /\ batch[b].st = "open"
    /\ trk[b].st = "none"
    /\ batch[b].count < MaxCopyOps
    /\ \E c \in CopyCalls :
          /\ heap[c.key].live
          /\ c.value # 0 => heap[c.value].live
          /\ batch' = [batch EXCEPT ![b].ops = Append(@, CopiedOp(c)), ![b].count = @ + 1]
          /\ hist' = [hist EXCEPT !.added = Append(@, BytesAtAdd(c))]
    /\ ret' = Returns("add", b, batch[b].count, RIOC_SUCCESS, NULL, FALSE)
    /\ UNCHANGED <<trk, rcv, heap, wire, reqq, srvSeq, app>>

\* the caller writes to one of its buffers
CallerWrites ==
    /\ app.pc = "idle"
    /\ \E x \in CallerBufs, s \in BufStrings :
          /\ heap[x].live
          /\ s # heap[x].data
          /\ heap' = [heap EXCEPT ![x].data = s]
    /\ ret' = NoRet
    /\ UNCHANGED <<batch, trk, rcv, wire, reqq, srvSeq, app, hist>>

\* the caller frees one of its buffers; what the memory holds from then on is
\* the allocator's business
CallerFrees ==
    /\ app.pc = "idle"
    /\ \E x \in CallerBufs, s \in BufStrings :
          /\ heap[x].live
          /\ heap' = [heap EXCEPT ![x].live = FALSE, ![x].data = s]
    /\ ret' = NoRet
    /\ UNCHANGED <<batch, trk, rcv, wire, reqq, srvSeq, app, hist>>

\* what the iovs of rioc_batch_execute_async carry: for every operation the
\* bytes at op->key and those at op->value_ptr
CopyStream(b) ==
    [k \in 1..batch[b].count |->
       [command |-> batch[b].ops[k].command,
        key |-> PlaceBytes(batch[b].ops[k].key),
        value |-> PlaceBytes(batch[b].ops[k].value)]]

\* rioc_batch_execute_async when the send succeeds
SubmitCopy(b) ==
    /\ app.pc = "idle"
    /\ batch[b].st = "open"
    /\ trk[b].st = "none"
    /\ batch[b].count > 0
    /\ reqq' = Append(reqq, CopyStream(b))
    /\ trk' = [trk EXCEPT ![b] = NewTracker]
    /\ ret' = Returns("submit", b, 0, 0, b, TRUE)
    /\ UNCHANGED <<batch, rcv, heap, wire, srvSeq, app, hist>>

InitCopy ==
    /\ batch = [b \in Batches |-> [st |-> "none", count |-> 0, ops |-> <<>>]]
    /\ trk = [b \in Batches |-> NoTracker]
    /\ rcv = [b \in Batches |-> NoThread]
    /\ heap \in [CallerBufs -> [kind : {"caller"}, data : BufStrings, live : {TRUE}]]
    /\ wire = <<>>
    /\ reqq = <<>>
    /\ srvSeq = 0
    /\ app = Idle
    /\ ret = NoRet
    /\ hist = [ioerr |-> FALSE, added |-> <<>>]

NextCopy ==
    \/ \E b \in Single : BatchCreateCopy(b) \/ BatchAddCopy(b) \/ SubmitCopy(b)
    \/ CallerWrites
    \/ CallerFrees

SpecCopy == InitCopy /\ [][NextCopy]_vars

(* ---- C31 ---- *)

\* C31: the keys and values a submit transmits are the bytes the caller's
\* buffers held when the adders were called, whatever the caller wrote to the
\* buffers or freed since.
C31_CopiedAtAdd ==
    \A t \in 1..Len(reqq) :
       /\ Len(reqq[t]) = Len(hist.added)
       /\ \A k \in 1..Len(reqq[t]) :
             /\ reqq[t][k].command = hist.added[k].command
             /\ reqq[t][k].key = hist.added[k].key
             /\ reqq[t][k].value = hist.added[k].value

\* a batch with an Insert was transmitted after the caller wrote other bytes
\* to the key buffer and freed the value buffer
C31_Witness ==
    /\ Len(reqq) = 1
    /\ \E k \in 1..Len(hist.added) :
          /\ hist.added[k].command = RIOC_CMD_INSERT
          /\ heap[KeyBuf].live
          /\ heap[KeyBuf].data # hist.added[k].key
          /\ ~heap[ValueBuf].live
          /\ heap[ValueBuf].data # hist.added[k].value

(* ---- the receiving half of the single-operation calls ---- *)
(* recv_response cell by cell, as the receiver above: the header is three   *)
(* cells (status in two halves, value_len), the payload follows.  The calls *)
(* are made one after the other on a session with nothing left unread.      *)

MaxSyncCalls == 2       \* single-operation calls in one run

SyncCommands ==
    {RIOC_CMD_GET, RIOC_CMD_INSERT, RIOC_CMD_DELETE, RIOC_CMD_RANGE_QUERY,
     RIOC_CMD_ATOMIC_INC_DEC}

\* the statuses other than Success the server answers with
ErrStatuses == {RIOC_ERR_NOENT, RIOC_ERR_PARAM}

\* the server's responses to a single-operation call: those of Replies, and
\* error responses with or without bytes after the header
SyncReplies(cmd, s) ==
    Replies(cmd, s)
      \cup {[status |-> e, value_len |-> n, payload |-> Cells(n, Byte(s))]
              : e \in ErrStatuses, n \in 0..MaxValueLen}

\* rioc_get and rioc_atomic_inc_dec pass value and value_len to recv_response,
\* rioc_insert and rioc_delete pass NULL
PassesValue(cmd) == cmd \in {RIOC_CMD_GET, RIOC_CMD_ATOMIC_INC_DEC}

\* a recv_response that reads the payload whatever the status
ReadsPayloadAnyStatus(cmd, status, value_len) ==
    IF cmd = RIOC_CMD_RANGE_QUERY THEN value_len > 0
    ELSE value_len > 0 /\ PassesValue(cmd)
\* whether the call goes on to read after the header: recv_response returns a
\* status other than 0 at once (lines 291-293) and reads the value only for
\* value_len > 0 && value && value_len; rioc_range_query returns a status
\* other than 0 at once (1160-1162) and reads entries only for a count > 0
ReadsPayload(cmd, status, value_len) ==
    /\ status = RIOC_SUCCESS
    /\ IF cmd = RIOC_CMD_RANGE_QUERY THEN value_len > 0
       ELSE value_len > 0 /\ PassesValue(cmd)

ReturnsSync(cmd, val, ptr, io) ==
    [call |-> "sync_done", b |-> 0, idx |-> 0, val |-> val, ptr |-> ptr, io |-> io,
     cmd |-> cmd, reply |-> hist.sent[Len(hist.sent)],
     taken |-> 0, allocated |-> 0]

\* rioc_get, rioc_insert, rioc_delete, rioc_range_query, rioc_atomic_inc_dec:
\* the request is sent
SyncCall ==
    /\ app.pc = "idle"
    /\ wire = <<>>
    /\ reqq = <<>>
    /\ srvSeq < MaxSyncCalls
    /\ \E cmd \in SyncCommands :
          /\ reqq' = <<cmd>>
          /\ app' = [pc |-> "sync_hdr", b |-> 0, timeout |-> 0, cmd |-> cmd,
                     taken |-> 0, heap0 |-> Len(heap), vlen |-> 0]
    /\ ret' = NoRet
    /\ UNCHANGED <<batch, trk, rcv, heap, wire, srvSeq, hist>>

\* the server answers the request
SyncServerRespond ==
    /\ reqq # <<>>
    /\ app.pc = "sync_hdr"
    /\ \E r \in SyncReplies(Head(reqq), srvSeq) :
          /\ wire' = wire \o <<StatusHi(r.status), StatusLo(r.status), r.value_len>>
                          \o r.payload
          /\ hist' = [hist EXCEPT !.sent = Append(@, r)]
    /\ reqq' = Tail(reqq)
    /\ srvSeq' = srvSeq + 1
    /\ ret' = NoRet
    /\ UNCHANGED <<batch, trk, rcv, heap, app>>

\* recv_response lines 279-294 and 335-340 (rioc_range_query 1147-1172): the
\* header is read; a status other than 0 is returned as it is
SyncRecvHeader ==
    /\ app.pc = "sync_hdr"
    /\ reqq = <<>>
    /\ \/ /\ Len(wire) >= HdrCells
          /\ wire' = Drop(wire, HdrCells)
          /\ LET status == AsInt32(wire[1], wire[2])
                 head == [status |-> status, value_len |-> wire[3]]
             IN  IF ReadsPayload(app.cmd, status, wire[3])
                 THEN /\ app' = [app EXCEPT !.pc = "sync_value", !.taken = HdrCells,
                                            !.vlen = wire[3]]
                      /\ ret' = NoRet
                 ELSE /\ app' = Idle
                      /\ ret' = [ReturnsSync(app.cmd,
                                    IF status # RIOC_SUCCESS THEN status
                                    ELSE SingleOpResult(app.cmd, [head EXCEPT !.value_len = 0]),
                                    NULL, FALSE)
                                 EXCEPT !.taken = HdrCells]
          /\ UNCHANGED hist
       \/ /\ app' = Idle
          /\ ret' = ReturnsSync(app.cmd, RIOC_ERR_IO, NULL, TRUE)
          /\ hist' = [hist EXCEPT !.ioerr = TRUE]
          /\ UNCHANGED wire
    /\ UNCHANGED <<batch, trk, rcv, heap, reqq, srvSeq>>

\* the cells of the payload: value_len bytes of a value, four cells for every
\* entry of a range query (key length, key, value length, value)
PayloadCells(cmd, value_len) ==
    IF cmd = RIOC_CMD_RANGE_QUERY THEN 4 * value_len ELSE value_len

\* recv_response lines 297-334 (rioc_range_query 1174-1293): the payload is
\* read into a buffer of the caller's; rioc_atomic_inc_dec copies the counter
\* out of it and frees it
SyncRecvValue ==
    /\ app.pc = "sync_value"
    /\ LET n == PayloadCells(app.cmd, app.vlen)
           head == [status |-> RIOC_SUCCESS, value_len |-> app.vlen]
           val == SingleOpResult(app.cmd, head)
       IN  \/ /\ Len(wire) >= n
              /\ wire' = Drop(wire, n)
              /\ \/ /\ heap' = IF app.cmd = RIOC_CMD_ATOMIC_INC_DEC
                               THEN FreeAll(Malloc(heap, "bytes", Take(wire, n)), {NewId(heap)})
                               ELSE Malloc(heap, "bytes", Take(wire, n))
                    /\ ret' = [ReturnsSync(app.cmd, val,
                                  IF app.cmd = RIOC_CMD_ATOMIC_INC_DEC THEN NULL
                                  ELSE NewId(heap), FALSE)
                               EXCEPT !.taken = app.taken + n, !.allocated = 1]
                    /\ UNCHANGED hist
                 \/ /\ ret' = [ReturnsSync(app.cmd, RIOC_ERR_MEM, NULL, FALSE)
                               EXCEPT !.taken = app.taken + n]
                    /\ UNCHANGED <<heap, hist>>
           \/ /\ ret' = [ReturnsSync(app.cmd, RIOC_ERR_IO, NULL, TRUE)
                         EXCEPT !.taken = app.taken]
              /\ hist' = [hist EXCEPT !.ioerr = TRUE]
              /\ UNCHANGED <<heap, wire>>
    /\ app' = Idle
    /\ UNCHANGED <<batch, trk, rcv, reqq, srvSeq>>

NextSync == SyncCall \/ SyncServerRespond \/ SyncRecvHeader \/ SyncRecvValue

SpecSync == Init /\ [][NextSync]_vars

(* ---- C32 ---- *)

\* C32: a single-operation call whose response header arrives with a status
\* other than Success returns that status, hands no buffer to its caller,
\* allocates none, and takes the header and nothing else from the session.
C32_StatusVerbatim ==
    (ret.call = "sync_done" /\ ~ret.io /\ ret.reply.status # RIOC_SUCCESS)
       => /\ ret.val = ret.reply.status
          /\ ret.ptr = NULL
          /\ ret.allocated = 0
          /\ ret.taken = HdrCells
          /\ wire = ret.reply.payload

\* rioc_get has returned KeyNotFound for a response that carried bytes after
\* its header
C32_Witness ==
    /\ ret.call = "sync_done"
    /\ ret.cmd = RIOC_CMD_GET
    /\ ret.val = RIOC_ERR_NOENT
    /\ ret.reply.value_len > 0
    /\ wire # <<>>

(* ---- C33 ---- *)

\* C33: when rioc_batch_tracker_free has joined the receiver, what its loop
\* passes to free() are live buffers the receiver allocated: never the pointer
\* into the batch's value buffer that batch_add_op staged for the request.
C33_FreesOnlyReceived ==
    \A b \in Batches :
       (app.pc = "join" /\ app.b = b /\ JoinReturns(b))
          => /\ TrackerFrees(b) \subseteq LiveBufs
             /\ \A k \in 1..batch[b].count :
                   batch[b].ops[k].value_ptr = STAGED => OpFrees(batch[b].ops[k]) = {}

(* ---- C34 ---- *)

\* C34: every read of the receiver and of rioc_range_query fits the buffer it
\* reads into: the value of a Get / AtomicIncDec response fits the response
\* buffer, and the fields of the next entry of a range response end within
\* the scratch buffer.
C34_ReadsFit ==
    /\ app.pc = "value" => app.vlen <= ResponseBufferSize
    /\ (app.pc = "range" /\ app.j < app.count)
          => app.offset + EntryBytes(app.sent[app.j + 1]) <= RangeBufferSize

(* ---- C35 ---- *)

\* C35: responses_received of a tracker starts at 0, changes only by growing
\* by 1 and never passes the batch count; the receiver does not write again to
\* a slot below responses_received; and once completed is set, the aggregate
\* status is Success exactly when responses_received equals the count.
C35_ReceivedCounter ==
    /\ [](\A b \in Batches :
            trk[b].st = "live"
               => /\ trk[b].responses_received \in 0..batch[b].count
                  /\ trk[b].completed = 1
                       => (trk[b].error = RIOC_SUCCESS
                             <=> trk[b].responses_received = batch[b].count))
    /\ [][\A b \in Batches :
            /\ (trk[b].st = "none" /\ trk'[b].st = "live")
                  => trk'[b].responses_received = 0
            /\ (trk[b].st = "live" /\ trk'[b].st = "live")
                  => /\ trk'[b].responses_received
                          \in {trk[b].responses_received, trk[b].responses_received + 1}
                     /\ \A k \in 1..trk[b].responses_received :
                           batch'[b].ops[k] = batch[b].ops[k]
         ]_vars

\* a receiver has completed with an error after it counted the first response
\* of a batch of two
C35_Witness ==
    \E b \in Single :
       /\ trk[b].st = "live"
       /\ trk[b].completed = 1
       /\ trk[b].error # RIOC_SUCCESS
       /\ trk[b].responses_received = 1
       /\ batch[b].count = 2

(* ---- C36 ---- *)

\* C36: the step that sets completed is the receiver's last: the aggregate
\* status was stored before it and nothing of the tracker or the batch changes
\* with or after it; the step that advances responses_received stores nothing
\* in the batch; so a wait that has seen completed = 1 returns the final
\* aggregate status, and a lookup below responses_received returns the slot
\* as the receiver left it.
C36_PublishedAfterStored ==
    [][\A b \in Batches :
          /\ (trk[b].completed = 0 /\ trk'[b].completed = 1)
                => /\ rcv'[b].pc = "exited"
                   /\ trk'[b].error = trk[b].error
                   /\ trk'[b].responses_received = trk[b].responses_received
                   /\ batch' = batch
          /\ (trk[b].st = "live" /\ rcv[b].pc = "exited")
                => /\ trk'[b].error = trk[b].error
                   /\ trk'[b].responses_received = trk[b].responses_received
                   /\ batch'[b].ops = batch[b].ops
          /\ trk'[b].responses_received # trk[b].responses_received
                => batch' = batch
          /\ (app.pc = "wait_ret" /\ app.b = b /\ ret'.call = "wait")
                => /\ rcv[b].pc = "exited"
                   /\ ret'.val = trk'[b].error
          /\ (ret'.call = "get" /\ ret'.b = b /\ ret'.idx < trk[b].responses_received)
                => /\ rcv[b].i > ret'.idx
                   /\ ret'.val = batch'[b].ops[ret'.idx + 1].status
                   /\ ret'.ptr = batch'[b].ops[ret'.idx + 1].value_ptr
      ]_vars

\* a lookup of slot 0 has returned while the receiver was reading the second
\* response of the batch
C36_Witness ==
    /\ ret.call = "get"
    /\ ret.idx = 0
    /\ trk[ret.b].responses_received = 1
    /\ trk[ret.b].completed = 0
    /\ rcv[ret.b].pc \in {"hdr", "value"}
    /\ rcv[ret.b].i = 1

(* ---- progress ---- *)
(* The receiver is a thread of its own and the application's calls run on   *)
(* theirs: each goes on as long as it has a step to take.  A receive is a   *)
(* step that can always be taken: it returns with the bytes asked for or    *)
(* with a failure.                                                          *)

Fairness ==
    \A b \in Single :
       /\ WF_vars(Receiver(b))
       /\ WF_vars(WaitPoll(b))
       /\ WF_vars(WaitReturn(b))
       /\ WF_vars(TrackerFreeJoin(b))

SpecLive == Init /\ [][Next]_vars /\ Fairness

(* ---- C37 ---- *)

\* C37: every tracker a submit returned becomes complete, every
\* rioc_batch_wait(tracker, 0) returns and every rioc_batch_tracker_free
\* retires its tracker.
C37_EventuallyCompleted ==
    \A b \in Single :
       /\ (trk[b].st = "live") ~> (trk[b].completed = 1)
       /\ (app.pc = "wait" /\ app.b = b /\ app.timeout = 0)
             ~> (ret.call = "wait" /\ ret.b = b /\ trk[b].completed = 1)
       /\ (app.pc = "join" /\ app.b = b) ~> (trk[b].st = "freed")

\* rioc_batch_tracker_free, called while the receiver was running, has
\* returned after the receiver gave up on a failed allocation
C37_Witness ==
    /\ ret.call = "tracker_free"
    /\ ret.b \in hist.early
    /\ hist.failed[ret.b] = "alloc"
    /\ trk[ret.b].completed = 1

(* ---- C38 ---- *)

\* the number of bytes that follow position p of a stream up to the next header
RECURSIVE BytesAfter(_, _)
BytesAfter(stream, p) ==
    IF p >= Len(stream) \/ stream[p + 1].t # "byte" THEN 0
    ELSE 1 + BytesAfter(stream, p + 1)

\* C38: in every stream a submit hands to the transport, the op header of
\* every operation is followed by key_len bytes of key and value_len bytes of
\* value, value_len being the one written in that header.
C38_ValueLenIsSent ==
    \A t \in 1..Len(reqq) :
       reqq[t].by = "submit"
          => \A p \in 1..Len(reqq[t].stream) :
                reqq[t].stream[p].t = "op"
                   => BytesAfter(reqq[t].stream, p)
                         = reqq[t].stream[p].b + reqq[t].stream[p].c

(* ---- C39: the submit whose receiver thread cannot be started ---- *)

\* the requests that may already be unanswered on the session when a submit
\* loses its receiver
MaxUnread == 0

\* lines 644-679: the vectored send went through, the cork is released and
\* iovs freed; pthread_create fails: free(tracker); return NULL
SubmitNoThread(b) ==
    /\ app.pc = "idle"
    /\ batch[b].st = "open"
    /\ trk[b].st = "none"
    /\ batch[b].count > 0
    /\ Len(reqq) <= MaxUnread
    /\ reqq' = reqq \o Requests(b)
    /\ ret' = Returns("submit", b, 0, 0, NULL, TRUE)
    /\ UNCHANGED <<batch, trk, rcv, heap, wire, srvSeq, app, hist>>

NextThread ==
    \/ Next
    \/ \E b \in Single : SubmitNoThread(b)

SpecThread == Init /\ [][NextThread]_vars

\* C39: a submit that returns no tracker has put no request on the session, so
\* no response is left for the receiver of a later submission.
C39_NullMeansNothingSent ==
    [][(ret'.call = "submit" /\ ret'.ptr = NULL) => reqq' = reqq]_vars

(* ---- C40: the offsets of the value staging buffer ---- *)

\* values vary in the first and the last MaxVaried slots of the batch; the
\* slots between them take a value of the largest size
MaxVaried == 1

VariedSlot(count) == count < MaxVaried \/ count >= RIOC_MAX_BATCH_SIZE - MaxVaried

\* line 417: the size of the value buffer rioc_batch_create allocates
ValueBufferSize == RIOC_MAX_VALUE_SIZE * RIOC_MAX_BATCH_SIZE + RIOC_CACHE_LINE_SIZE

\* offsets one cache line apart
AlignedOffsetPacked(count) == count * RIOC_CACHE_LINE_SIZE
\* lines 460-461 and 533-534: (count * RIOC_MAX_VALUE_SIZE + RIOC_CACHE_LINE_SIZE - 1)
\* & ~(RIOC_CACHE_LINE_SIZE - 1), the mask clearing the low seven bits
AlignedOffset(count) ==
    ((count * RIOC_MAX_VALUE_SIZE + RIOC_CACHE_LINE_SIZE - 1) \div RIOC_CACHE_LINE_SIZE)
       * RIOC_CACHE_LINE_SIZE

\* the add calls: fn "op" is batch_add_op (value: the value pointer is not
\* NULL), fn "range" is rioc_batch_add_range_query (value_len: end_key_len)
StageCalls ==
    [fn : {"op"}, value : BOOLEAN,
     value_len : {0, 1, RIOC_MAX_VALUE_SIZE, RIOC_MAX_VALUE_SIZE + 1}]
    \cup [fn : {"range"}, value : {TRUE},
          value_len : {0, RIOC_MAX_KEY_SIZE, RIOC_MAX_KEY_SIZE + 1}]

FullValue == [fn |-> "op", value |-> TRUE, value_len |-> RIOC_MAX_VALUE_SIZE]

StageCallsAt(count) ==
    IF VariedSlot(count) THEN {c \in StageCalls : ~c.value => c.value_len <= 1}
    ELSE {FullValue}

\* lines 438-441 and 511-515, with a valid batch and valid keys
StageRejects(count, c) ==
    \/ c.fn = "op" /\ c.value /\ c.value_len > RIOC_MAX_VALUE_SIZE
    \/ c.fn = "range" /\ c.value_len > RIOC_MAX_KEY_SIZE
    \/ count >= RIOC_MAX_BATCH_SIZE

\* lines 458 and 531: the add copies a value into the staging buffer
StagesValue(c) ==
    IF c.fn = "op" THEN c.value /\ c.value_len > 0 ELSE c.value_len > 0

\* lines 449, 483-487 (526, 545-548): the op as the add leaves it
StagedOp(count, c) ==
    [value_len    |-> c.value_len,
     value_ptr    |-> IF StagesValue(c) THEN STAGED ELSE NULL,
     value_offset |-> IF StagesValue(c) THEN AlignedOffset(count) ELSE 0]

ReturnsStage(call, val) == [call |-> call, val |-> val]

\* rioc_batch_create, the allocations succeeding
StageCreate(b) ==
    /\ batch[b].st = "none"
    /\ batch' = [batch EXCEPT ![b] = [st |-> "open", count |-> 0,
                                      value_buffer_size |-> ValueBufferSize,
                                      ops |-> <<>>]]
    /\ ret' = ReturnsStage("create", b)
    /\ UNCHANGED <<trk, rcv, heap, wire, reqq, srvSeq, app, hist>>

\* batch_add_op / rioc_batch_add_range_query
StageAdd(b) ==
    /\ batch[b].st = "open"
    /\ \E c \in StageCallsAt(batch[b].count) :
          IF StageRejects(batch[b].count, c)
          THEN /\ ret' = ReturnsStage("add", RIOC_ERR_PARAM)
               /\ UNCHANGED batch
          ELSE /\ batch' = [batch EXCEPT
                              ![b].ops = Append(@, StagedOp(batch[b].count, c)),
                              ![b].count = @ + 1]
               /\ ret' = ReturnsStage("add", RIOC_SUCCESS)
    /\ UNCHANGED <<trk, rcv, heap, wire, reqq, srvSeq, app, hist>>

InitStage ==
    /\ batch = [b \in Single |->
                  [st |-> "none", count |-> 0, value_buffer_size |-> 0, ops |-> <<>>]]
    /\ trk = <<>>
    /\ rcv = <<>>
    /\ heap = <<>>
    /\ wire = <<>>
    /\ reqq = <<>>
    /\ srvSeq = 0
    /\ app = Idle
    /\ ret = ReturnsStage("none", 0)
    /\ hist = <<>>

NextStage ==
    \/ \E b \in Single : StageCreate(b)
    \/ \E b \in Single : StageAdd(b)

SpecStage == InitStage /\ [][NextStage]_vars

\* the operations of b that have a value in the staging buffer
Staged(b) == {i \in 1..batch[b].count : batch[b].ops[i].value_ptr = STAGED}

RegionEnd(op) == op.value_offset + op.value_len

\* C40: the staging regions [value_offset, value_offset + value_len) of the
\* operations of a batch that hold a value start on a multiple of 128, lie
\* inside the value buffer and are pairwise disjoint.
C40_StagedRegions ==
    \A b \in Single :
       \A i \in Staged(b) :
          LET op == batch[b].ops[i] IN
          /\ op.value_offset % RIOC_CACHE_LINE_SIZE = 0
          /\ op.value_len > 0
          /\ RegionEnd(op) <= batch[b].value_buffer_size
          /\ \A j \in Staged(b) :
                j < i => RegionEnd(batch[b].ops[j]) <= op.value_offset

C40_Witness ==
    \E b \in Single :
       /\ batch[b].count = RIOC_MAX_BATCH_SIZE
       /\ Staged(b) = 1..RIOC_MAX_BATCH_SIZE
       /\ \A i \in {1, RIOC_MAX_BATCH_SIZE - 1, RIOC_MAX_BATCH_SIZE} :
             batch[b].ops[i].value_len = RIOC_MAX_VALUE_SIZE
       /\ batch[b].ops[RIOC_MAX_BATCH_SIZE].value_offset
             = (RIOC_MAX_BATCH_SIZE - 1) * RIOC_MAX_VALUE_SIZE
       /\ ret = ReturnsStage("add", RIOC_ERR_PARAM)

====
